---------------------------- MODULE Spec2Model ----------------------------
(***************************************************************************)
(* DESaster (Nepal variant): recovery programs run as cooperative          *)
(* processes over a discrete-event scheduler.  The model covers the        *)
(* event queue, the staff / skilled-labor pools (simpy.Resource), the      *)
(* assistance budget and material stocks (simpy.Container) and the         *)
(* process() generators of desaster/financial.py and desaster/technical.py.*)
(* One action is one resumption of one generator: the code between two     *)
(* yields, run when the event the generator waits for is processed.        *)
(***************************************************************************)
EXTENDS Integers, Sequences, FiniteSets, TLC

VARIABLES
    mode,       \* which programs the scenario spawns
    now,        \* env.now
    queue,      \* the scheduler's event queue, ordered by (time, priority, insertion)
    procs,      \* process id -> generator state
    nspawned,   \* number of processes spawned so far
    nintr,      \* number of interrupts delivered so far
    capacity,   \* pool -> Resource.capacity, container -> Container.capacity
    users,      \* pool -> Resource.users (granted, not released requests)
    putq,       \* pool -> Resource.put_queue (pending requests)
    level,      \* container -> Container.level
    getq,       \* container -> Container.get_queue (pending gets)
    entity,     \* entity id -> Owner attributes
    structure,  \* entity id -> Building attributes (entity.property)
    requested,  \* pool -> requests in the order they were made (history)
    granted     \* pool -> requests in the order they were granted (history)

vars == <<mode, now, queue, procs, nspawned, nintr, capacity, users, putq,
          level, getq, entity, structure, requested, granted>>

-----------------------------------------------------------------------------
(* Bounds of the model *)

MaxProcs == 2

MaxPermits == 3

MaxInterrupts == 1

MaxStaff == 2

-----------------------------------------------------------------------------
(* Program constants and scenario inputs *)

NoTime == -1

Infinity == -1

Tier1 == 50000

Tier2 == 150000

Tier3 == 100000

CrewSize == 4

DeductiblePct == 10

MaxLoan == 150000

(* max_outlay of the IndividualAssistance program of the scenarios: one *)
(* first-tier grant per household.                                      *)
MaxOutlay == 50000

PlinthValue == 100000

WallValue == 200000

RoofValue == 100000

(* The households of the scenario *)
Entities == {1, 2}

Max(a, b) == IF a >= b THEN a ELSE b

Procs == 1..Max(MaxProcs, MaxPermits)

(* Values the duration sampler self.duration() returns *)
Durations == {1, 2}

Stages == {"Up to Plinth Level", "Superstructure", "Roofing"}

FinancialKinds == {"IndividualAssistance", "OwnersInsurance", "HomeLoan"}

Pools == {"ia_staff", "oi_staff", "hl_staff", "permit_staff", "skilled",
          "ea_staff", "insp_staff"}

MaterialOrder == <<"stone", "brick", "timber", "rebar", "cement", "cgi", "sand", "aggregate">>

GetOrder == MaterialOrder \o <<"unskilled">>

Materials == {MaterialOrder[i] : i \in 1..Len(MaterialOrder)}

Containers == {"budget", "unskilled"} \cup Materials


(* Scenario inputs read from the house-type workbook: quantity of each     *)
(* material a stage needs, after the reclaim factors of lines 401-405.     *)
Needed(stage, m) ==
    CASE stage = "Up to Plinth Level" ->
            (CASE m = "stone" -> 2 [] m = "cement" -> 1 [] m = "sand" -> 1
               [] m = "aggregate" -> 1 [] m = "unskilled" -> 1 [] OTHER -> 0)
      [] stage = "Superstructure" ->
            (CASE m = "brick" -> 2 [] m = "timber" -> 1 [] m = "rebar" -> 1
               [] m = "cement" -> 1 [] m = "unskilled" -> 1 [] OTHER -> 0)
      [] OTHER ->
            (CASE m = "timber" -> 1 [] m = "cgi" -> 2 [] m = "unskilled" -> 1
               [] OTHER -> 0)

(* mat_req.loc['Skilled'][level]: skilled effort of a stage, in worker-days *)
SkilledNeeded(stage) ==
    CASE stage = "Up to Plinth Level" -> 4
      [] stage = "Superstructure" -> 8
      [] OTHER -> 4

-----------------------------------------------------------------------------
(* Scheduler: simpy.Environment *)

Event(type, p, k, res) ==
    [t |-> 0, urgent |-> FALSE, type |-> type, p |-> p, k |-> k, res |-> res]

(* Priorities of Environment.schedule *)
URGENT == TRUE

NORMAL == FALSE

(* Environment.schedule: events are ordered by time, then priority (urgent *)
(* before normal), then insertion order.                                   *)
Schedule(q, t, prio, ev) ==
    LET e == [ev EXCEPT !.t = t, !.urgent = prio]
        n == Cardinality({i \in 1..Len(q) :
                 q[i].t < t \/ (q[i].t = t /\ (q[i].urgent \/ ~prio))})
    IN  SubSeq(q, 1, n) \o <<e>> \o SubSeq(q, n + 1, Len(q))

Remove(seq, x) ==
    SelectSeq(seq, LAMBDA y : y # x)

InSeq(seq, x) ==
    \E i \in 1..Len(seq) : seq[i] = x

(* The part of the state that pool, container and scheduler calls change.  *)
World ==
    [queue |-> queue, users |-> users, putq |-> putq, level |-> level,
     getq |-> getq, requested |-> requested, granted |-> granted]

-----------------------------------------------------------------------------
(* simpy.Resource *)

(* Mutant of DoPut: the capacity test is off by one. *)
DoPutOffByOne(w, pl) ==
    Len(w.users[pl]) <= capacity[pl]

(* Resource._do_put: a request is granted when a slot is free. *)
DoPut(w, pl) ==
    Len(w.users[pl]) < capacity[pl]

(* Mutant of TriggerPut: the most recent request is served first. *)
TriggerPutNewestFirst(w, pl, t) ==
    IF w.putq[pl] # <<>> /\ DoPut(w, pl)
    THEN LET n == Len(w.putq[pl])
             rid == w.putq[pl][n]
         IN  [w EXCEPT !.users[pl] = Append(@, rid),
                       !.putq[pl] = SubSeq(@, 1, n - 1),
                       !.granted[pl] = Append(@, rid),
                       !.queue = Schedule(@, t, NORMAL,
                                          Event("req", rid[1], rid[2], pl))]
    ELSE w

(* BaseResource._trigger_put: serve the head of the put queue. *)
TriggerPut(w, pl, t) ==
    IF w.putq[pl] # <<>> /\ DoPut(w, pl)
    THEN LET rid == Head(w.putq[pl])
         IN  [w EXCEPT !.users[pl] = Append(@, rid),
                       !.putq[pl] = Tail(@),
                       !.granted[pl] = Append(@, rid),
                       !.queue = Schedule(@, t, NORMAL,
                                          Event("req", rid[1], rid[2], pl))]
    ELSE w

(* Resource.request(): queue the request, then try to serve the queue. *)
Request(w, pl, rid, t) ==
    TriggerPut([w EXCEPT !.putq[pl] = Append(@, rid),
                         !.requested[pl] = Append(@, rid)], pl, t)

(* Mutant of Release: the Release event is scheduled but the request *)
(* stays among the users.                                            *)
ReleaseKeepsUser(w, pl, rid, t) ==
    [w EXCEPT !.queue = Schedule(@, t, NORMAL, Event("rel", 0, 0, pl))]

(* Mutant of Release: the Release event, and with it the service of the *)
(* put queue, comes one time unit after the release.                    *)
ReleaseServesQueueLater(w, pl, rid, t) ==
    [w EXCEPT !.users[pl] = Remove(@, rid),
              !.queue = Schedule(@, t + 1, NORMAL, Event("rel", 0, 0, pl))]

(* Resource.release(request): the slot is freed at once; the Release event *)
(* is scheduled and serves the put queue when it is processed.             *)
Release(w, pl, rid, t) ==
    [w EXCEPT !.users[pl] = Remove(@, rid),
              !.queue = Schedule(@, t, NORMAL, Event("rel", 0, 0, pl))]

-----------------------------------------------------------------------------
(* simpy.Container *)

(* Mutant of DoGet: the withdrawal is made whatever the level. *)
DoGetUnchecked(w, c, amount) ==
    TRUE

(* Container._do_get: a get succeeds when the level covers the amount. *)
DoGet(w, c, amount) ==
    w.level[c] >= amount

(* BaseResource._trigger_get: serve pending gets from the head of the queue *)
(* until one cannot be served.                                             *)
RECURSIVE TriggerGet(_, _, _)
TriggerGet(w, c, t) ==
    IF w.getq[c] # <<>> /\ DoGet(w, c, Head(w.getq[c]).amount)
    THEN LET g == Head(w.getq[c])
         IN  TriggerGet([w EXCEPT !.level[c] = @ - g.amount,
                                  !.getq[c] = Tail(@),
                                  !.queue = Schedule(@, t, NORMAL,
                                                 Event("get", g.p, g.k, c))],
                        c, t)
    ELSE w

(* Mutant of Get: the get succeeds but the level is left as it was. *)
GetLeavesLevel(w, c, p, k, amount, t) ==
    [w EXCEPT !.queue = Schedule(@, t, NORMAL, Event("get", p, k, c))]

(* Container.get(amount) *)
Get(w, c, p, k, amount, t) ==
    TriggerGet([w EXCEPT !.getq[c] = Append(@, [p |-> p, k |-> k, amount |-> amount])],
               c, t)

(* Write a world back to the state. *)
Commit(w) ==
    /\ queue' = w.queue
    /\ users' = w.users
    /\ putq' = w.putq
    /\ level' = w.level
    /\ getq' = w.getq
    /\ requested' = w.requested
    /\ granted' = w.granted

-----------------------------------------------------------------------------
(* Entities and structures *)

SavingsChoices == {0, PlinthValue, PlinthValue + WallValue + RoofValue}

(* Owner.__init__ *)
NewOwner(savings, insurance, write_story) ==
    [insurance |-> insurance, savings |-> savings,
     write_story |-> write_story, story |-> <<>>,
     claim_put |-> NoTime, claim_get |-> NoTime, claim_payout |-> 0,
     assistance_put |-> NoTime, assistance_get |-> NoTime,
     assistance_request |-> 0, assistance_payout |-> 0,
     money_to_rebuild |-> savings,
     loan_put |-> NoTime, loan_get |-> NoTime, loan_amount |-> 0,
     permit_put |-> NoTime, permit_get |-> NoTime,
     inspection_put |-> NoTime, inspection_get |-> NoTime,
     assessment_put |-> NoTime, assessment_get |-> NoTime,
     rebuild_put |-> NoTime, rebuild_get |-> NoTime,
     debt |-> 0]

(* Building.__init__ *)
NewBuilding ==
    [permit |-> FALSE, inspected |-> FALSE, assessment |-> FALSE,
     new_plinth |-> FALSE, new_walls |-> FALSE, new_roof |-> FALSE,
     plinth_time |-> 0, walls_time |-> 0, roof_time |-> 0,
     finished_plinth |-> 0, finished_walls |-> 0, finished_roof |-> 0,
     first_inst |-> FALSE, second_inst |-> FALSE, third_inst |-> FALSE,
     first_inst_time |-> 0, second_inst_time |-> 0, third_inst_time |-> 0,
     plinth_value |-> PlinthValue, wall_value |-> WallValue,
     roof_value |-> RoofValue,
     damage_value |-> PlinthValue + WallValue + RoofValue,
     value |-> PlinthValue + WallValue + RoofValue]

(* entity.story.append(...), done only when entity.write_story *)
Story(en, tag, val) ==
    IF en.write_story
    THEN [en EXCEPT !.story = Append(@, <<tag, val>>)]
    ELSE en

-----------------------------------------------------------------------------
(* Processes *)

Unborn ==
    [kind |-> "", ent |-> 1, stage |-> "", pc |-> "unborn", k |-> 0,
     loc |-> 0, intr |-> "", held |-> 0, cause |-> 0, out |-> "",
     began |-> NoTime, ended |-> NoTime, cb |-> "none", bound |-> TRUE]

(* The event at the head of the queue is the one the scheduler processes *)
(* next (Environment.step).                                              *)
Next1 == Head(queue)

(* Process p is suspended on exactly the event ev. *)
Awaits(p, ev) ==
    /\ ev.p = p
    /\ \/ procs[p].pc = "start" /\ ev.type = "init"
       \/ procs[p].pc = "req" /\ ev.type = "req" /\ ev.k = procs[p].k
       \/ procs[p].pc = "tmo" /\ ev.type = "tmo"
       \/ procs[p].pc = "get" /\ ev.type = "get" /\ ev.k = procs[p].k

(* Resumption of process p of the given kind at the given yield. *)
Resumes(p, kind, pc) ==
    /\ queue # <<>>
    /\ procs[p].kind = kind
    /\ procs[p].pc = pc
    /\ Awaits(p, Next1)

(* The pool a program requests its slots from: self.staff, or *)
(* self.skilled for RepairProgram.                            *)
PoolOf(kind) ==
    CASE kind = "IndividualAssistance" -> "ia_staff"
      [] kind = "OwnersInsurance" -> "oi_staff"
      [] kind = "HomeLoan" -> "hl_staff"
      [] kind = "Permit" -> "permit_staff"
      [] kind = "EngineeringAssessment" -> "ea_staff"
      [] kind = "Inspection" -> "insp_staff"
      [] OTHER -> "skilled"

(* Slots of the pool that process p holds. *)
Held(us, p) ==
    Cardinality({i \in 1..Len(us) : us[i][1] = p})

(* What a process was suspended on when an interrupt reached it. *)
SuspendedOn(p) ==
    CASE procs[p].pc = "req" ->
            IF InSeq(putq[PoolOf(procs[p].kind)], <<p, procs[p].k>>)
            THEN "queued" ELSE "granted"
      [] OTHER -> procs[p].pc

(* The time of the event being processed, and the world once it is popped. *)
T == Next1.t

W0 == [World EXCEPT !.queue = Tail(queue)]

(* The outcomes of a return statement inside the try block. *)
EarlyReturns == {"noop", "denied", "short", "no_money"}

(* if callbacks is not None: yield self.env.process(callbacks), the last *)
(* statement of every generator but InspectionProgram's. A return leaves *)
(* the generator before it; RepairProgram and EngineeringAssessment name *)
(* a global env that does not exist.                                     *)
Callbacks(pr, out) ==
    IF pr.cb # "given" \/ out \in EarlyReturns \/ pr.kind = "Inspection"
    THEN pr.cb
    ELSE IF pr.kind \in {"Repair", "EngineeringAssessment"} THEN "name_error"
    ELSE "started"

(* The generator's own code ends; out and ended record how and when *)
(* (history).                                                       *)
Finish(p, out) ==
    procs' = [procs EXCEPT ![p].pc = "done", ![p].out = out, ![p].ended = T,
                           ![p].cb = Callbacks(procs[p], out)]

Suspend(p, pc, k) ==
    procs' = [procs EXCEPT ![p].pc = pc, ![p].k = k]

(* yield self.env.timeout(d) *)
Timeout(w, p, d, t) ==
    [w EXCEPT !.queue = Schedule(@, t + d, NORMAL, Event("tmo", p, 0, ""))]

(* Mutant of GiveUp: the process also gives up by itself, when the event *)
(* it waits for is its processing timeout.                               *)
GiveUpWhenTimeExpires(p, tag) ==
    /\ queue # <<>>
    /\ Next1.type \in {"intr", "tmo"}
    /\ Next1.p = p
    /\ procs[p].pc \in {"req", "tmo", "get"}
    /\ now' = T
    /\ Commit(W0)
    /\ procs' = [procs EXCEPT ![p].pc = "done",
                              ![p].out = "gave_up",
                              ![p].ended = T,
                              ![p].cause = Next1.k,
                              ![p].intr = SuspendedOn(p),
                              ![p].held = Held(users[PoolOf(procs[p].kind)], p),
                              ![p].cb = Callbacks(procs[p], "gave_up")]
    /\ entity' = [entity EXCEPT ![procs[p].ent] = Story(@, tag, Next1.k)]
    /\ UNCHANGED <<mode, nspawned, nintr, capacity, structure>>

(* except Interrupt as i: the handler writes the give-up to the story and *)
(* the generator goes on to its last statement.                           *)
GiveUp(p, tag) ==
    /\ queue # <<>>
    /\ Next1.type = "intr"
    /\ Next1.p = p
    /\ procs[p].pc \in {"req", "tmo", "get"}
    /\ now' = T
    /\ Commit(W0)
    /\ procs' = [procs EXCEPT ![p].pc = "done",
                              ![p].out = "gave_up",
                              ![p].ended = T,
                              ![p].cause = Next1.k,
                              ![p].intr = SuspendedOn(p),
                              ![p].held = Held(users[PoolOf(procs[p].kind)], p),
                              ![p].cb = Callbacks(procs[p], "gave_up")]
    /\ entity' = [entity EXCEPT ![procs[p].ent] = Story(@, tag, Next1.k)]
    /\ UNCHANGED <<mode, nspawned, nintr, capacity, structure>>

-----------------------------------------------------------------------------
(* financial.IndividualAssistance.process *)

(* Mutant of AssistanceRequest: the first two tiers are exchanged. *)
AssistanceRequestTiersSwapped(st) ==
    IF ~st.new_plinth THEN Tier2
    ELSE IF ~st.new_walls THEN Tier1
    ELSE Tier3

(* Grant tier from the structure's stage flags (lines 155-160). *)
AssistanceRequest(st) ==
    IF ~st.new_plinth THEN Tier1
    ELSE IF ~st.new_walls THEN Tier2
    ELSE Tier3

(* Mutant of MarkInstallment: every full payout is booked as the first *)
(* installment.                                                        *)
MarkInstallmentAlwaysFirst(st, t) ==
    [st EXCEPT !.first_inst = TRUE, !.first_inst_time = t]

(* Installment flag and time of a full payout (lines 172-180). *)
MarkInstallment(st, t) ==
    IF ~st.new_plinth
    THEN [st EXCEPT !.first_inst = TRUE, !.first_inst_time = t]
    ELSE IF ~st.new_walls
    THEN [st EXCEPT !.second_inst = TRUE, !.second_inst_time = t]
    ELSE [st EXCEPT !.third_inst = TRUE, !.third_inst_time = t]

IA_Start(p) ==
    /\ Resumes(p, "IndividualAssistance", "start")
    /\ now' = T
    /\ LET e == procs[p].ent IN
       IF entity[e].money_to_rebuild >= structure[e].damage_value
       THEN /\ Finish(p, "noop")
            /\ Commit(W0)
            /\ UNCHANGED entity
       ELSE /\ entity' = [entity EXCEPT ![e] =
                   Story([@ EXCEPT !.assistance_put = T], "ia_submitted", T)]
            /\ Commit(Request(W0, "ia_staff", <<p, 1>>, T))
            /\ Suspend(p, "req", 1)
    /\ UNCHANGED <<mode, nspawned, nintr, capacity, structure>>

IA_Granted(p) ==
    /\ Resumes(p, "IndividualAssistance", "req")
    /\ now' = T
    /\ \E d \in Durations : Commit(Timeout(W0, p, d, T))
    /\ Suspend(p, "tmo", 0)
    /\ UNCHANGED <<mode, nspawned, nintr, capacity, entity, structure>>

IA_TimeoutDone(p) ==
    /\ Resumes(p, "IndividualAssistance", "tmo")
    /\ now' = T
    /\ LET e == procs[p].ent
           w1 == Release(W0, "ia_staff", <<p, 1>>, T)
           req == AssistanceRequest(structure[e])
           en1 == [entity[e] EXCEPT !.assistance_get = T,
                                    !.assistance_request = req]
           lvl == w1.level["budget"]
       IN
       IF req <= lvl /\ req # 0
       THEN /\ entity' = [entity EXCEPT ![e] =
                   [en1 EXCEPT !.assistance_payout = req,
                               !.money_to_rebuild = @ + req]]
            /\ structure' = [structure EXCEPT ![e] = MarkInstallment(@, T)]
            /\ Commit(Get(w1, "budget", p, 1, req, T))
            /\ procs' = [procs EXCEPT ![p].pc = "get", ![p].k = 1, ![p].loc = 1]
       ELSE IF lvl > 0
       THEN /\ entity' = [entity EXCEPT ![e] =
                   [en1 EXCEPT !.assistance_payout = lvl,
                               !.money_to_rebuild = @ + lvl]]
            /\ Commit(Get(w1, "budget", p, 1, lvl, T))
            /\ procs' = [procs EXCEPT ![p].pc = "get", ![p].k = 1, ![p].loc = 2]
            /\ UNCHANGED structure
       ELSE /\ entity' = [entity EXCEPT ![e] =
                   Story([en1 EXCEPT !.assistance_payout = 0], "ia_no_funds", 0)]
            /\ Commit(w1)
            /\ Finish(p, "completed")
            /\ UNCHANGED structure
    /\ UNCHANGED <<mode, nspawned, nintr, capacity>>

IA_GetDone(p) ==
    /\ Resumes(p, "IndividualAssistance", "get")
    /\ now' = T
    /\ Commit(W0)
    /\ Finish(p, "completed")
    /\ entity' = [entity EXCEPT ![procs[p].ent] =
           Story(@, IF procs[p].loc = 1 THEN "ia_received" ELSE "ia_partial",
                 @.assistance_payout)]
    /\ UNCHANGED <<mode, nspawned, nintr, capacity, structure>>

IA_Interrupted(p) ==
    /\ procs[p].kind = "IndividualAssistance"
    /\ GiveUp(p, "ia_gave_up")

-----------------------------------------------------------------------------
(* financial.OwnersInsurance.process *)

(* Mutant of DeductibleAmount: the coverage ratio is left out. *)
DeductibleOfValue(st, en) ==
    (st.value * DeductiblePct) \div 100

(* entity.property.value * entity.insurance * self.deductible, with the  *)
(* coverage ratio and the deductible rate in percent (values are whole   *)
(* hundreds; the division is split to keep the product in range).        *)
DeductibleAmount(st, en) ==
    ((st.value \div 100) * en.insurance * DeductiblePct) \div 100

(* Mutant of OI_Start: only a negative coverage ratio counts as no *)
(* insurance.                                                     *)
OI_StartNegativeOnly(p) ==
    /\ Resumes(p, "OwnersInsurance", "start")
    /\ now' = T
    /\ LET e == procs[p].ent
           ded == DeductibleAmount(structure[e], entity[e])
           en1 == Story([entity[e] EXCEPT !.claim_put = T], "oi_submitted", T)
       IN
       IF entity[e].insurance < 0
       THEN /\ entity' = [entity EXCEPT ![e] = Story(@, "oi_no_insurance", 0)]
            /\ Commit(W0)
            /\ Finish(p, "noop")
       ELSE IF structure[e].damage_value < ded
       THEN /\ entity' = [entity EXCEPT ![e] =
                   [Story(en1, "oi_deductible", 0) EXCEPT !.claim_get = T]]
            /\ Commit(W0)
            /\ Finish(p, "denied")
       ELSE /\ entity' = [entity EXCEPT ![e] = en1]
            /\ Commit(Request(W0, "oi_staff", <<p, 1>>, T))
            /\ procs' = [procs EXCEPT ![p].pc = "req", ![p].k = 1, ![p].loc = ded]
    /\ UNCHANGED <<mode, nspawned, nintr, capacity, structure>>

OI_Start(p) ==
    /\ Resumes(p, "OwnersInsurance", "start")
    /\ now' = T
    /\ LET e == procs[p].ent
           ded == DeductibleAmount(structure[e], entity[e])
           en1 == Story([entity[e] EXCEPT !.claim_put = T], "oi_submitted", T)
       IN
       IF entity[e].insurance <= 0
       THEN /\ entity' = [entity EXCEPT ![e] = Story(@, "oi_no_insurance", 0)]
            /\ Commit(W0)
            /\ Finish(p, "noop")
       ELSE IF structure[e].damage_value < ded
       THEN /\ entity' = [entity EXCEPT ![e] =
                   [Story(en1, "oi_deductible", 0) EXCEPT !.claim_get = T]]
            /\ Commit(W0)
            /\ Finish(p, "denied")
       ELSE /\ entity' = [entity EXCEPT ![e] = en1]
            /\ Commit(Request(W0, "oi_staff", <<p, 1>>, T))
            /\ procs' = [procs EXCEPT ![p].pc = "req", ![p].k = 1, ![p].loc = ded]
    /\ UNCHANGED <<mode, nspawned, nintr, capacity, structure>>

OI_Granted(p) ==
    /\ Resumes(p, "OwnersInsurance", "req")
    /\ now' = T
    /\ \E d \in Durations : Commit(Timeout(W0, p, d, T))
    /\ Suspend(p, "tmo", 0)
    /\ UNCHANGED <<mode, nspawned, nintr, capacity, entity, structure>>

OI_TimeoutDone(p) ==
    /\ Resumes(p, "OwnersInsurance", "tmo")
    /\ now' = T
    /\ LET e == procs[p].ent
           payout == structure[e].damage_value - procs[p].loc
       IN
       /\ entity' = [entity EXCEPT ![e] =
              Story([@ EXCEPT !.claim_payout = payout,
                              !.money_to_rebuild = @ + payout,
                              !.claim_get = T], "oi_received", payout)]
       /\ Commit(Release(W0, "oi_staff", <<p, 1>>, T))
    /\ Finish(p, "completed")
    /\ UNCHANGED <<mode, nspawned, nintr, capacity, structure>>

OI_Interrupted(p) ==
    /\ procs[p].kind = "OwnersInsurance"
    /\ GiveUp(p, "oi_gave_up")

-----------------------------------------------------------------------------
(* financial.HomeLoan.process *)

(* Mutant of RebuildCost: the loan targets the whole damage value. *)
RebuildCostWholeHouse(st) ==
    st.damage_value

(* Value of the first incomplete stage (lines 408-413). *)
RebuildCost(st) ==
    IF ~st.new_plinth THEN st.plinth_value
    ELSE IF ~st.new_walls THEN st.wall_value
    ELSE st.roof_value

Min(a, b) == IF a <= b THEN a ELSE b

(* Mutant of LoanAmount: the assistance payout is not subtracted. *)
LoanAmountIgnoresAssistance(st, en, cost) ==
    LET saved == IF ~st.new_plinth THEN en.savings ELSE 0
    IN  Min(MaxLoan, cost - saved - en.claim_payout)

(* Lines 450-459. *)
LoanAmount(st, en, cost) ==
    LET saved == IF ~st.new_plinth THEN en.savings ELSE 0
    IN  Min(MaxLoan, cost - saved - en.claim_payout - en.assistance_payout)

HL_Start(p) ==
    /\ Resumes(p, "HomeLoan", "start")
    /\ now' = T
    /\ LET e == procs[p].ent
           cost == RebuildCost(structure[e])
       IN
       IF entity[e].money_to_rebuild >= cost
       THEN /\ Finish(p, "noop")
            /\ Commit(W0)
            /\ UNCHANGED entity
       ELSE /\ entity' = [entity EXCEPT ![e] =
                   Story([@ EXCEPT !.loan_put = T], "hl_submitted", T)]
            /\ Commit(Request(W0, "hl_staff", <<p, 1>>, T))
            /\ procs' = [procs EXCEPT ![p].pc = "req", ![p].k = 1, ![p].loc = cost]
    /\ UNCHANGED <<mode, nspawned, nintr, capacity, structure>>

HL_Granted(p) ==
    /\ Resumes(p, "HomeLoan", "req")
    /\ now' = T
    /\ \E d \in Durations : Commit(Timeout(W0, p, d, T))
    /\ Suspend(p, "tmo", 0)
    /\ UNCHANGED <<mode, nspawned, nintr, capacity, entity, structure>>

(* Mutant of HL_TimeoutDone: the computed amount is booked whatever its *)
(* sign.                                                                *)
HL_TimeoutDoneBooksAnyAmount(p) ==
    /\ Resumes(p, "HomeLoan", "tmo")
    /\ now' = T
    /\ LET e == procs[p].ent
           amt == LoanAmount(structure[e], entity[e], procs[p].loc)
           en1 == [entity[e] EXCEPT !.loan_get = T, !.loan_amount = amt]
       IN
       /\ entity' = [entity EXCEPT ![e] =
              Story([en1 EXCEPT !.money_to_rebuild = @ + amt,
                                !.debt = @ + amt], "hl_received", amt)]
       /\ Commit(Release(W0, "hl_staff", <<p, 1>>, T))
    /\ Finish(p, "completed")
    /\ UNCHANGED <<mode, nspawned, nintr, capacity, structure>>

HL_TimeoutDone(p) ==
    /\ Resumes(p, "HomeLoan", "tmo")
    /\ now' = T
    /\ LET e == procs[p].ent
           amt == LoanAmount(structure[e], entity[e], procs[p].loc)
           en1 == [entity[e] EXCEPT !.loan_get = T, !.loan_amount = amt]
       IN
       /\ entity' = [entity EXCEPT ![e] =
              IF amt > 0
              THEN Story([en1 EXCEPT !.money_to_rebuild = @ + amt,
                                     !.debt = @ + amt], "hl_received", amt)
              ELSE en1]
       /\ Commit(Release(W0, "hl_staff", <<p, 1>>, T))
    /\ Finish(p, "completed")
    /\ UNCHANGED <<mode, nspawned, nintr, capacity, structure>>

HL_Interrupted(p) ==
    /\ procs[p].kind = "HomeLoan"
    /\ GiveUp(p, "hl_gave_up")

-----------------------------------------------------------------------------
(* technical.PermitProgram.process *)

Permit_Start(p) ==
    /\ Resumes(p, "Permit", "start")
    /\ now' = T
    /\ entity' = [entity EXCEPT ![procs[p].ent].permit_put = T]
    /\ Commit(Request(W0, "permit_staff", <<p, 1>>, T))
    /\ Suspend(p, "req", 1)
    /\ UNCHANGED <<mode, nspawned, nintr, capacity, structure>>

Permit_Granted(p) ==
    /\ Resumes(p, "Permit", "req")
    /\ now' = T
    /\ \E d \in Durations : Commit(Timeout(W0, p, d, T))
    /\ Suspend(p, "tmo", 0)
    /\ UNCHANGED <<mode, nspawned, nintr, capacity, entity, structure>>

Permit_TimeoutDone(p) ==
    /\ Resumes(p, "Permit", "tmo")
    /\ now' = T
    /\ Commit(Release(W0, "permit_staff", <<p, 1>>, T))
    /\ structure' = [structure EXCEPT ![procs[p].ent].permit = TRUE]
    /\ entity' = [entity EXCEPT ![procs[p].ent] =
           Story([@ EXCEPT !.permit_get = T], "permit_received", T)]
    /\ Finish(p, "completed")
    /\ UNCHANGED <<mode, nspawned, nintr, capacity>>

-----------------------------------------------------------------------------
(* technical.InspectionProgram.process *)

(* An exception leaves the generator: the process fails, and when the   *)
(* scheduler comes to the failed process's event, env.run() raises the  *)
(* exception and processes nothing more.                                *)
Raise(w, p, t) ==
    [w EXCEPT !.queue = Schedule(@, t, NORMAL, Event("fail", p, 0, ""))]

(* Lines 154-171: what the closing section of the generator does with    *)
(* the entity it was given. With no entity, entity.write_story is an     *)
(* attribute of None; with every stage built, rebuild_cost was never set. *)
InspectionReport(st, en, bound) ==
    IF ~bound THEN "attribute_error"
    ELSE IF ~en.write_story THEN "completed"
    ELSE IF st.new_plinth /\ st.new_walls /\ st.new_roof
    THEN "unbound_local_error"
    ELSE "completed"

Insp_Start(p) ==
    /\ Resumes(p, "Inspection", "start")
    /\ now' = T
    /\ entity' = IF procs[p].bound
                 THEN [entity EXCEPT ![procs[p].ent].inspection_put = T]
                 ELSE entity
    /\ Commit(Request(W0, "insp_staff", <<p, 1>>, T))
    /\ Suspend(p, "req", 1)
    /\ UNCHANGED <<mode, nspawned, nintr, capacity, structure>>

Insp_Granted(p) ==
    /\ Resumes(p, "Inspection", "req")
    /\ now' = T
    /\ \E d \in Durations : Commit(Timeout(W0, p, d, T))
    /\ Suspend(p, "tmo", 0)
    /\ UNCHANGED <<mode, nspawned, nintr, capacity, entity, structure>>

Insp_TimeoutDone(p) ==
    /\ Resumes(p, "Inspection", "tmo")
    /\ now' = T
    /\ LET e == procs[p].ent
           st == structure[e]
           out == InspectionReport(st, entity[e], procs[p].bound)
           w1 == Release(W0, "insp_staff", <<p, 1>>, T)
           en1 == IF procs[p].bound
                  THEN [entity[e] EXCEPT !.inspection_get = T]
                  ELSE entity[e]
       IN
       /\ structure' = [structure EXCEPT ![e].inspected = TRUE]
       /\ entity' = [entity EXCEPT ![e] =
              IF out = "completed"
              THEN Story(en1, "inspected", RebuildCost(st))
              ELSE en1]
       /\ Commit(IF out = "completed" THEN w1 ELSE Raise(w1, p, T))
       /\ Finish(p, out)
    /\ UNCHANGED <<mode, nspawned, nintr, capacity>>

-----------------------------------------------------------------------------
(* technical.EngineeringAssessment.process *)

EA_Start(p) ==
    /\ Resumes(p, "EngineeringAssessment", "start")
    /\ now' = T
    /\ entity' = [entity EXCEPT ![procs[p].ent].assessment_put = T]
    /\ Commit(Request(W0, "ea_staff", <<p, 1>>, T))
    /\ Suspend(p, "req", 1)
    /\ UNCHANGED <<mode, nspawned, nintr, capacity, structure>>

EA_Granted(p) ==
    /\ Resumes(p, "EngineeringAssessment", "req")
    /\ now' = T
    /\ \E d \in Durations : Commit(Timeout(W0, p, d, T))
    /\ Suspend(p, "tmo", 0)
    /\ UNCHANGED <<mode, nspawned, nintr, capacity, entity, structure>>

(* Mutant of EA_TimeoutDone: the engineer is not released. *)
EA_TimeoutDoneKeepsEngineer(p) ==
    /\ Resumes(p, "EngineeringAssessment", "tmo")
    /\ now' = T
    /\ Commit(W0)
    /\ structure' = [structure EXCEPT ![procs[p].ent].assessment = TRUE]
    /\ entity' = [entity EXCEPT ![procs[p].ent] =
           Story([@ EXCEPT !.assessment_get = T], "assessment_received", T)]
    /\ Finish(p, "completed")
    /\ UNCHANGED <<mode, nspawned, nintr, capacity>>

EA_TimeoutDone(p) ==
    /\ Resumes(p, "EngineeringAssessment", "tmo")
    /\ now' = T
    /\ Commit(Release(W0, "ea_staff", <<p, 1>>, T))
    /\ structure' = [structure EXCEPT ![procs[p].ent].assessment = TRUE]
    /\ entity' = [entity EXCEPT ![procs[p].ent] =
           Story([@ EXCEPT !.assessment_get = T], "assessment_received", T)]
    /\ Finish(p, "completed")
    /\ UNCHANGED <<mode, nspawned, nintr, capacity>>

-----------------------------------------------------------------------------
(* technical.RepairProgram.process *)

(* Mutant of FirstShort: the checks of cgi, sand and aggregate are missing. *)
FirstShortFiveChecks(stage, lv) ==
    LET short == {i \in 1..5 :
                     Needed(stage, MaterialOrder[i]) > lv[MaterialOrder[i]]}
    IN  IF short = {} THEN 0
        ELSE CHOOSE i \in short : \A j \in short : i <= j

(* The first material, in the order of the checks of lines 418-504, whose *)
(* needed quantity exceeds its container's level; 0 when none is short.   *)
FirstShort(stage, lv) ==
    LET short == {i \in 1..Len(MaterialOrder) :
                     Needed(stage, MaterialOrder[i]) > lv[MaterialOrder[i]]}
    IN  IF short = {} THEN 0
        ELSE CHOOSE i \in short : \A j \in short : i <= j

(* The material named by the story line of each shortage (line 445 names *)
(* stone for a timber shortage).                                         *)
ShortageStory(m) ==
    IF m = "timber" THEN "insufficient_stone" 
    ELSE CASE m = "stone" -> "insufficient_stone"
           [] m = "brick" -> "insufficient_brick"
           [] m = "rebar" -> "insufficient_rebar"
           [] m = "cement" -> "insufficient_cement"
           [] m = "cgi" -> "insufficient_cgi"
           [] m = "sand" -> "insufficient_sand"
           [] OTHER -> "insufficient_aggregate"

(* Mutant of StageCost: every stage is charged the plinth's value. *)
StageCostFlat(stage, st) ==
    st.plinth_value

(* Lines 507-512. *)
StageCost(stage, st) ==
    CASE stage = "Up to Plinth Level" -> st.plinth_value
      [] stage = "Superstructure" -> st.wall_value
      [] OTHER -> st.roof_value

(* Mutant of NextGet: the unskilled-labour withdrawal of line 568 is left *)
(* out.                                                                  *)
NextGetMaterialsOnly(stage, j) ==
    LET rest == {i \in (j + 1)..Len(MaterialOrder) :
                    Needed(stage, GetOrder[i]) > 0}
    IN  IF rest = {} THEN 0
        ELSE CHOOSE i \in rest : \A x \in rest : i <= x

(* The next container, after the j-th of lines 550-568, that the stage *)
(* withdraws from (needed quantity > 0); 0 when there is none.         *)
NextGet(stage, j) ==
    LET rest == {i \in (j + 1)..Len(GetOrder) : Needed(stage, GetOrder[i]) > 0}
    IN  IF rest = {} THEN 0
        ELSE CHOOSE i \in rest : \A x \in rest : i <= x

(* Lines 550-572: withdraw the next needed material, or, after the last, *)
(* start the build timeout.                                              *)
WithdrawOrBuild(w, p, stage, j, t) ==
    LET i == NextGet(stage, j) IN
    IF i # 0
    THEN Get(w, GetOrder[i], p, i, Needed(stage, GetOrder[i]), t)
    ELSE Timeout(w, p, SkilledNeeded(stage) \div CrewSize, t)

(* Mutant of ReleaseCrew: the fourth request is never released. *)
ReleaseCrewButLast(w, p, t) ==
    Release(Release(Release(w, "skilled", <<p, 1>>, t),
                    "skilled", <<p, 2>>, t),
            "skilled", <<p, 3>>, t)

(* Lines 575-578. *)
ReleaseCrew(w, p, t) ==
    Release(Release(Release(Release(w, "skilled", <<p, 1>>, t),
                            "skilled", <<p, 2>>, t),
                    "skilled", <<p, 3>>, t),
            "skilled", <<p, 4>>, t)

(* Mutant of CompleteStage: the flags are set to the stage just built only. *)
CompleteStageOnly(st, stage, put, get) ==
    [st EXCEPT !.new_plinth = (stage = "Up to Plinth Level"),
               !.new_walls = (stage = "Superstructure"),
               !.new_roof = (stage = "Roofing")]

(* Lines 595-609: the stage's flag, duration and completion time. *)
CompleteStage(st, stage, put, get) ==
    CASE stage = "Up to Plinth Level" ->
            [st EXCEPT !.new_plinth = TRUE, !.plinth_time = get - put,
                       !.finished_plinth = get]
      [] stage = "Superstructure" ->
            [st EXCEPT !.new_walls = TRUE, !.walls_time = get - put,
                       !.finished_walls = get]
      [] OTHER ->
            [st EXCEPT !.new_roof = TRUE, !.roof_time = get - put,
                       !.finished_roof = get]

(* Mutant of Repair_Start: the money check comes before the material *)
(* checks.                                                           *)
Repair_StartMoneyFirst(p) ==
    /\ Resumes(p, "Repair", "start")
    /\ now' = T
    /\ LET e == procs[p].ent
           stage == procs[p].stage
           short == FirstShort(stage, level)
           cost == StageCost(stage, structure[e])
       IN
       IF entity[e].money_to_rebuild < cost
       THEN /\ entity' = [entity EXCEPT ![e] = Story(@, "repair_no_money", 0)]
            /\ Commit(W0)
            /\ Finish(p, "no_money")
       ELSE IF short # 0
       THEN /\ entity' = [entity EXCEPT ![e] =
                   Story(@, ShortageStory(MaterialOrder[short]), 0)]
            /\ Commit(W0)
            /\ Finish(p, "short")
       ELSE /\ entity' = [entity EXCEPT ![e].rebuild_put = T]
            /\ Commit(Request(W0, "skilled", <<p, 1>>, T))
            /\ Suspend(p, "req", 1)
    /\ UNCHANGED <<mode, nspawned, nintr, capacity, structure>>

Repair_Start(p) ==
    /\ Resumes(p, "Repair", "start")
    /\ now' = T
    /\ LET e == procs[p].ent
           stage == procs[p].stage
           short == FirstShort(stage, level)
           cost == StageCost(stage, structure[e])
       IN
       IF short # 0
       THEN /\ entity' = [entity EXCEPT ![e] =
                   Story(@, ShortageStory(MaterialOrder[short]), 0)]
            /\ Commit(W0)
            /\ Finish(p, "short")
       ELSE IF entity[e].money_to_rebuild < cost
       THEN /\ entity' = [entity EXCEPT ![e] = Story(@, "repair_no_money", 0)]
            /\ Commit(W0)
            /\ Finish(p, "no_money")
       ELSE /\ entity' = [entity EXCEPT ![e].rebuild_put = T]
            /\ Commit(Request(W0, "skilled", <<p, 1>>, T))
            /\ Suspend(p, "req", 1)
    /\ UNCHANGED <<mode, nspawned, nintr, capacity, structure>>

(* Lines 538-544: each granted request is followed by the next one. *)
Repair_Granted(p) ==
    /\ Resumes(p, "Repair", "req")
    /\ procs[p].k < CrewSize
    /\ now' = T
    /\ Commit(Request(W0, "skilled", <<p, procs[p].k + 1>>, T))
    /\ Suspend(p, "req", procs[p].k + 1)
    /\ UNCHANGED <<mode, nspawned, nintr, capacity, entity, structure>>

(* Lines 544-572: the fourth slot is granted, or a material is withdrawn. *)
Repair_Withdraw(p) ==
    /\ \/ Resumes(p, "Repair", "req") /\ procs[p].k = CrewSize
       \/ Resumes(p, "Repair", "get")
    /\ now' = T
    /\ LET j == IF procs[p].pc = "req" THEN 0 ELSE procs[p].k
           i == NextGet(procs[p].stage, j)
       IN
       /\ Commit(WithdrawOrBuild(W0, p, procs[p].stage, j, T))
       /\ IF i # 0 THEN Suspend(p, "get", i) ELSE Suspend(p, "tmo", 0)
    /\ UNCHANGED <<mode, nspawned, nintr, capacity, entity, structure>>

Repair_TimeoutDone(p) ==
    /\ Resumes(p, "Repair", "tmo")
    /\ now' = T
    /\ LET e == procs[p].ent
           stage == procs[p].stage
           put == entity[e].rebuild_put
       IN
       /\ Commit(ReleaseCrew(W0, p, T))
       /\ entity' = [entity EXCEPT ![e] =
              [Story([@ EXCEPT !.rebuild_get = T], "repaired", T - put)
                  EXCEPT !.money_to_rebuild =
                             @ - StageCost(stage, structure[e])]]
       /\ structure' = [structure EXCEPT ![e] = CompleteStage(@, stage, put, T)]
    /\ Finish(p, "completed")
    /\ UNCHANGED <<mode, nspawned, nintr, capacity>>

Repair_Interrupted(p) ==
    /\ procs[p].kind = "Repair"
    /\ GiveUp(p, "repair_gave_up")

-----------------------------------------------------------------------------
(* Scheduler steps that resume no process, and the orchestrator *)

(* A Release event is processed: its callback serves the pool's queue. *)
ReleaseProcessed ==
    /\ queue # <<>>
    /\ Next1.type = "rel"
    /\ now' = T
    /\ Commit(TriggerPut(W0, Next1.res, T))
    /\ UNCHANGED <<mode, procs, nspawned, nintr, capacity, entity, structure>>

(* An event no generator is subscribed to any more: the grant or the     *)
(* timeout of a process that was interrupted, an interrupt for a process *)
(* that has ended.                                                       *)
Unsubscribed ==
    /\ queue # <<>>
    /\ Next1.type \in {"req", "tmo", "get", "intr"}
    /\ procs[Next1.p].pc = "done"
    /\ now' = T
    /\ Commit(W0)
    /\ UNCHANGED <<mode, procs, nspawned, nintr, capacity, entity, structure>>

Causes == {1, 2}

CancellableKinds == FinancialKinds \cup {"Repair"}

KindsOf(m) ==
    CASE m = "financial" -> FinancialKinds
      [] m = "assistance" -> {"IndividualAssistance", "HomeLoan"}
      [] m = "insurance" -> {"OwnersInsurance"}
      [] m = "permit" -> {"Permit"}
      [] m = "technical" -> {"Permit", "EngineeringAssessment"}
      [] m = "inspection" -> {"Inspection"}
      [] m = "repair" -> {"Repair"}
      [] m \in {"pipeline", "crew"} -> {"Repair"}
      [] m = "callbacks" -> FinancialKinds
      [] m = "grants" -> {"IndividualAssistance", "Repair"}
      [] m = "quiet" -> FinancialKinds
                           \cup {"Permit", "Repair", "EngineeringAssessment"}
      [] OTHER -> FinancialKinds \cup {"Permit", "Repair"}

(* The households the orchestrator starts programs for. *)
ClientsOf(m) ==
    IF m \in {"all", "pipeline", "assistance", "insurance", "callbacks",
              "grants", "technical", "crew", "quiet"}
    THEN {1}
    ELSE Entities

ProcLimit(m) ==
    CASE m \in {"permit", "technical"} -> MaxPermits
      [] m \in {"pipeline", "grants", "callbacks"} -> Cardinality(Stages)
      [] OTHER -> MaxProcs

(* The orchestrator acts when the scenario starts and whenever the events *)
(* of the current time have all been processed.                           *)
OrchestratorTurn ==
    IF queue = <<>> THEN TRUE
    ELSE IF Next1.t > now THEN TRUE
    ELSE now = 0 /\ \A i \in 1..Len(queue) : queue[i].type = "init"

(* Whether the orchestrator hands a callbacks generator to process(). *)
CallbacksOf(m) ==
    IF m = "callbacks" THEN "given" ELSE "none"

(* env.process(program.process(entity)) by the orchestrator *)
Spawn(kind, e, stage) ==
    /\ OrchestratorTurn
    /\ nspawned < ProcLimit(mode)
    /\ kind \in KindsOf(mode)
    /\ e \in ClientsOf(mode)
    /\ (kind = "Repair") = (stage \in Stages)
    /\ nspawned' = nspawned + 1
    /\ procs' = [procs EXCEPT ![nspawned + 1] =
           [Unborn EXCEPT !.kind = kind, !.ent = e, !.stage = stage,
                          !.pc = "start", !.began = now,
                          !.cb = CallbacksOf(mode)]]
    /\ queue' = Schedule(queue, now, URGENT, Event("init", nspawned + 1, 0, ""))
    /\ UNCHANGED <<mode, now, nintr, capacity, users, putq, level, getq,
                   entity, structure, requested, granted>>

(* env.process(inspection.process(structure, entity)), with the entity *)
(* of the structure or with none.                                      *)
InspectionSpawn(e, bound) ==
    /\ OrchestratorTurn
    /\ nspawned < ProcLimit(mode)
    /\ e \in ClientsOf(mode)
    /\ nspawned' = nspawned + 1
    /\ procs' = [procs EXCEPT ![nspawned + 1] =
           [Unborn EXCEPT !.kind = "Inspection", !.ent = e, !.pc = "start",
                          !.began = now, !.bound = bound]]
    /\ queue' = Schedule(queue, now, URGENT, Event("init", nspawned + 1, 0, ""))
    /\ UNCHANGED <<mode, now, nintr, capacity, users, putq, level, getq,
                   entity, structure, requested, granted>>

(* The first stage of a structure that is not complete. *)
NextStage(st) ==
    IF ~st.new_plinth THEN "Up to Plinth Level"
    ELSE IF ~st.new_walls THEN "Superstructure"
    ELSE "Roofing"

(* The caller's contract of RepairProgram: the stages of a structure are *)
(* repaired in order, one Repair process at a time.                      *)
PipelineSpawn(e) ==
    /\ ~structure[e].new_roof
    /\ \A p \in Procs : procs[p].pc \in {"unborn", "done"}
    /\ Spawn("Repair", e, NextStage(structure[e]))

(* process.interrupt(cause) on a suspended process of a program that *)
(* handles Interrupt                                                  *)
Interrupt(p, cause) ==
    /\ OrchestratorTurn
    /\ nintr < MaxInterrupts
    /\ procs[p].pc \in {"req", "tmo", "get"}
    /\ procs[p].kind \in CancellableKinds
    /\ nintr' = nintr + 1
    /\ queue' = Schedule(queue, now, URGENT, Event("intr", p, cause, ""))
    /\ UNCHANGED <<mode, now, procs, nspawned, capacity, users, putq, level,
                   getq, entity, structure, requested, granted>>

-----------------------------------------------------------------------------
(* Initial states: the scenario the external loader hands to the programs *)

BudgetChoices == {0, 30000, Tier1, Tier1 + Tier2 + Tier3}

InsuranceChoices == {0, 50}

(* Coverage ratios, in percent, of the insurance scenarios: none, half, and *)
(* two ratios so high that the deductible equals or exceeds the damage.   *)
CoverageChoices == {0, 50, 10000 \div DeductiblePct, 11000 \div DeductiblePct}

SkilledChoices == {2, CrewSize, 2 * CrewSize}

(* Stock of a material: enough for one repair of a stage when short, for *)
(* every repair of the scenario otherwise.                               *)
StockOf(m, shortOf) ==
    IF m = shortOf THEN 1 ELSE 2 * (MaxProcs + 1)

(* What the scenarios of each mode vary. *)
StaffOf(m) ==
    IF m \in {"repair", "all", "pipeline", "callbacks", "grants", "crew",
              "quiet"}
    THEN {1}
    ELSE 1..MaxStaff


SkilledOf(m) ==
    CASE m = "repair" -> SkilledChoices
      [] m \in {"pipeline", "crew"} -> {CrewSize, CrewSize + 1, 2 * CrewSize}
      [] m \in {"all", "grants"} -> {2 * CrewSize}
      [] OTHER -> {CrewSize}

BudgetOf(m) ==
    CASE m \in {"financial", "assistance"} -> BudgetChoices
      [] m = "all" -> {30000}
      [] m = "callbacks" -> {0, Tier1}
      [] m = "grants" -> {30000, Tier1 + Tier2 + Tier3}
      [] OTHER -> {Tier1}

ShortOf(m) ==
    CASE m = "repair" -> Materials \cup {"unskilled", "none"}
      [] m = "all" -> {"cement"}
      [] OTHER -> {"none"}

SavingsOf(m) ==
    CASE m \in {"financial", "assistance", "insurance"} -> SavingsChoices
      [] m = "repair" -> SavingsChoices \ {0}
      [] m = "crew" -> {PlinthValue + WallValue + RoofValue}
      [] m = "pipeline" -> {PlinthValue + WallValue + RoofValue,
                            PlinthValue + WallValue + RoofValue + Tier1}
      [] m = "permit" -> {PlinthValue}
      [] m = "callbacks" -> {0, PlinthValue + WallValue + RoofValue}
      [] m = "grants" -> {PlinthValue + WallValue}
      [] OTHER -> {0, PlinthValue}

InsuranceOf(m) ==
    CASE m = "financial" -> InsuranceChoices
      [] m = "assistance" -> {0}
      [] m = "insurance" -> CoverageChoices
      [] m = "callbacks" -> CoverageChoices \ {0}
      [] m \in {"all", "quiet"} -> {50}
      [] OTHER -> {0}

(* What the constructors reject: Resource(env, capacity=staff) raises for *)
(* a capacity <= 0 and Container(env, init=budget) for an init < 0; the   *)
(* programs add no test of their own.                                     *)
ConstructionFails(staff, budget) ==
    staff <= 0 \/ budget < 0

(* Arguments a loader may hand to the constructors besides the valid ones. *)
BadStaff == {0}

BadBudget == {0 - 1}

InitFor(m) ==
    /\ mode = m
    /\ now = 0
    /\ queue = <<>>
    /\ procs = [p \in Procs |-> Unborn]
    /\ nspawned = 0
    /\ nintr = 0
    /\ \E staff \in StaffOf(m) \cup BadStaff, skilled \in SkilledOf(m) :
       \E shortOf \in ShortOf(m) :
          /\ capacity = [r \in Pools \cup Containers |->
                 CASE r = "skilled" -> skilled
                   [] r \in Pools -> staff
                   [] r = "budget" -> Infinity
                   [] OTHER -> StockOf(r, "none")]
          /\ \E budget \in BudgetOf(m) \cup BadBudget :
                /\ ~ConstructionFails(staff, budget)
                /\ level = [c \in Containers |->
                            IF c = "budget" THEN budget ELSE StockOf(c, shortOf)]
    /\ users = [pl \in Pools |-> <<>>]
    /\ putq = [pl \in Pools |-> <<>>]
    /\ getq = [c \in Containers |-> <<>>]
    /\ \E sav \in SavingsOf(m), ins \in InsuranceOf(m) :
          entity = [e \in Entities |->
                       IF e = 1 THEN NewOwner(sav, ins, TRUE)
                       ELSE NewOwner(0, 0, FALSE)]
    /\ structure = [e \in Entities |-> NewBuilding]
    /\ requested = [pl \in Pools |-> <<>>]
    /\ granted = [pl \in Pools |-> <<>>]

Scheduler ==
    \/ ReleaseProcessed
    \/ Unsubscribed
    \/ \E k \in KindsOf(mode), e \in Entities, st \in Stages \cup {""} : Spawn(k, e, st)
    \/ \E p \in Procs, c \in Causes : Interrupt(p, c)

Financial ==
    \/ \E p \in Procs : IA_Start(p)
    \/ \E p \in Procs : IA_Granted(p)
    \/ \E p \in Procs : IA_TimeoutDone(p)
    \/ \E p \in Procs : IA_GetDone(p)
    \/ \E p \in Procs : IA_Interrupted(p)
    \/ \E p \in Procs : OI_Start(p)
    \/ \E p \in Procs : OI_Granted(p)
    \/ \E p \in Procs : OI_TimeoutDone(p)
    \/ \E p \in Procs : OI_Interrupted(p)
    \/ \E p \in Procs : HL_Start(p)
    \/ \E p \in Procs : HL_Granted(p)
    \/ \E p \in Procs : HL_TimeoutDone(p)
    \/ \E p \in Procs : HL_Interrupted(p)

Permit ==
    \/ \E p \in Procs : Permit_Start(p)
    \/ \E p \in Procs : Permit_Granted(p)
    \/ \E p \in Procs : Permit_TimeoutDone(p)

Repair ==
    \/ \E p \in Procs : Repair_Start(p)
    \/ \E p \in Procs : Repair_Granted(p)
    \/ \E p \in Procs : Repair_Withdraw(p)
    \/ \E p \in Procs : Repair_TimeoutDone(p)
    \/ \E p \in Procs : Repair_Interrupted(p)

Init == InitFor("all")

Next == Scheduler \/ Financial \/ Permit \/ Repair

Spec == Init /\ [][Next]_vars

InitFinancial == InitFor("financial")

NextFinancial == Scheduler \/ Financial

SpecFinancial == InitFinancial /\ [][NextFinancial]_vars

InitAssistance == InitFor("assistance")

NextAssistance ==
    \/ Scheduler
    \/ \E p \in Procs : IA_Start(p)
    \/ \E p \in Procs : IA_Granted(p)
    \/ \E p \in Procs : IA_TimeoutDone(p)
    \/ \E p \in Procs : IA_GetDone(p)
    \/ \E p \in Procs : IA_Interrupted(p)
    \/ \E p \in Procs : HL_Start(p)
    \/ \E p \in Procs : HL_Granted(p)
    \/ \E p \in Procs : HL_TimeoutDone(p)
    \/ \E p \in Procs : HL_Interrupted(p)

SpecAssistance == InitAssistance /\ [][NextAssistance]_vars

InitInsurance == InitFor("insurance")

NextInsurance ==
    \/ Scheduler
    \/ \E p \in Procs : OI_Start(p)
    \/ \E p \in Procs : OI_Granted(p)
    \/ \E p \in Procs : OI_TimeoutDone(p)
    \/ \E p \in Procs : OI_Interrupted(p)

SpecInsurance == InitInsurance /\ [][NextInsurance]_vars

InitPermit == InitFor("permit")

NextPermit ==
    \/ ReleaseProcessed
    \/ \E e \in Entities : Spawn("Permit", e, "")
    \/ Permit

SpecPermit == InitPermit /\ [][NextPermit]_vars

InitRepair == InitFor("repair")

NextRepair == Scheduler \/ Repair

SpecRepair == InitRepair /\ [][NextRepair]_vars

(* The financial programs started with a callbacks generator. *)
InitCallbacks == InitFor("callbacks")

NextCallbacks == Scheduler \/ Financial

SpecCallbacks == InitCallbacks /\ [][NextCallbacks]_vars

(* Permits and engineering assessments; env.run() processes events as *)
(* long as there are any.                                             *)
InitTechnical == InitFor("technical")

NextTechnical ==
    \/ ReleaseProcessed
    \/ \E k \in KindsOf("technical") : Spawn(k, 1, "")
    \/ Permit
    \/ \E p \in Procs : EA_Start(p)
    \/ \E p \in Procs : EA_Granted(p)
    \/ \E p \in Procs : EA_TimeoutDone(p)

SpecTechnical ==
    InitTechnical /\ [][NextTechnical]_vars /\ WF_vars(NextTechnical)

(* Inspections of the structures of both households, requested with or *)
(* without the household.                                               *)
InitInspection == InitFor("inspection")

NextInspection ==
    \/ ReleaseProcessed
    \/ \E e \in Entities, bound \in BOOLEAN : InspectionSpawn(e, bound)
    \/ \E p \in Procs : Insp_Start(p)
    \/ \E p \in Procs : Insp_Granted(p)
    \/ \E p \in Procs : Insp_TimeoutDone(p)

SpecInspection == InitInspection /\ [][NextInspection]_vars

(* Repairs started side by side, never interrupted, with materials for *)
(* all of them; env.run() processes events as long as there are any.   *)
InitCrew == InitFor("crew")

NextCrew ==
    \/ ReleaseProcessed
    \/ \E st \in Stages : Spawn("Repair", 1, st)
    \/ \E p \in Procs : Repair_Start(p)
    \/ \E p \in Procs : Repair_Granted(p)
    \/ \E p \in Procs : Repair_Withdraw(p)
    \/ \E p \in Procs : Repair_TimeoutDone(p)

SpecCrew == InitCrew /\ [][NextCrew]_vars /\ WF_vars(NextCrew)

(* Every program at work for one household, and no process is ever *)
(* interrupted.                                                    *)
InitQuiet == InitFor("quiet")

NextQuiet ==
    \/ ReleaseProcessed
    \/ \E k \in KindsOf("quiet"), st \in Stages \cup {""} : Spawn(k, 1, st)
    \/ \E bound \in BOOLEAN : InspectionSpawn(1, bound)
    \/ \E p \in Procs : IA_Start(p)
    \/ \E p \in Procs : IA_Granted(p)
    \/ \E p \in Procs : IA_TimeoutDone(p)
    \/ \E p \in Procs : IA_GetDone(p)
    \/ \E p \in Procs : OI_Start(p)
    \/ \E p \in Procs : OI_Granted(p)
    \/ \E p \in Procs : OI_TimeoutDone(p)
    \/ \E p \in Procs : HL_Start(p)
    \/ \E p \in Procs : HL_Granted(p)
    \/ \E p \in Procs : HL_TimeoutDone(p)
    \/ Permit
    \/ \E p \in Procs : Repair_Start(p)
    \/ \E p \in Procs : Repair_Granted(p)
    \/ \E p \in Procs : Repair_Withdraw(p)
    \/ \E p \in Procs : Repair_TimeoutDone(p)
    \/ \E p \in Procs : Insp_Start(p)
    \/ \E p \in Procs : Insp_Granted(p)
    \/ \E p \in Procs : Insp_TimeoutDone(p)
    \/ \E p \in Procs : EA_Start(p)
    \/ \E p \in Procs : EA_Granted(p)
    \/ \E p \in Procs : EA_TimeoutDone(p)

SpecQuiet == InitQuiet /\ [][NextQuiet]_vars

(* One household that repairs stages and asks for the grant of the stage *)
(* it has reached.                                                       *)
InitGrants == InitFor("grants")

NextGrants ==
    \/ Scheduler
    \/ Repair
    \/ \E p \in Procs : IA_Start(p)
    \/ \E p \in Procs : IA_Granted(p)
    \/ \E p \in Procs : IA_TimeoutDone(p)
    \/ \E p \in Procs : IA_GetDone(p)
    \/ \E p \in Procs : IA_Interrupted(p)

SpecGrants == InitGrants /\ [][NextGrants]_vars

(* One household repairs its three stages in order; env.run() processes *)
(* events as long as there are any.                                     *)
InitPipeline == InitFor("pipeline")

NextPipeline ==
    \/ ReleaseProcessed
    \/ \E e \in Entities : PipelineSpawn(e)
    \/ \E p \in Procs : Repair_Start(p)
    \/ \E p \in Procs : Repair_Granted(p)
    \/ \E p \in Procs : Repair_Withdraw(p)
    \/ \E p \in Procs : Repair_TimeoutDone(p)

SpecPipeline == InitPipeline /\ [][NextPipeline]_vars /\ WF_vars(NextPipeline)

-----------------------------------------------------------------------------
(* Properties *)

AtMost(x, cap) == cap = Infinity \/ x <= cap

IsPrefix(a, b) ==
    /\ Len(a) <= Len(b)
    /\ \A i \in 1..Len(a) : a[i] = b[i]

(* Requests of process p that are among the users of its program's pool. *)
SlotsOf(p) == Held(users[PoolOf(procs[p].kind)], p)

(* The request process p was suspended on is waiting in the put queue. *)
Waiting(p) ==
    /\ procs[p].pc = "req"
    /\ InSeq(putq[PoolOf(procs[p].kind)], <<p, procs[p].k>>)

GiveUpTags == {"ia_gave_up", "oi_gave_up", "hl_gave_up", "repair_gave_up"}

(* Give-up records of entity e that carry the given cause. *)
GiveUps(e, cause) ==
    Cardinality({i \in 1..Len(entity[e].story) :
                    /\ entity[e].story[i][1] \in GiveUpTags
                    /\ entity[e].story[i][2] = cause})

(* Processes of entity e that gave up on an interrupt with the given cause. *)
GaveUp(e, cause) ==
    Cardinality({p \in Procs : /\ procs[p].ent = e
                               /\ procs[p].out = "gave_up"
                               /\ procs[p].cause = cause})

(* C1: in every reachable state, every staff or skilled-labor pool has at *)
(* most capacity granted-and-not-released requests.                       *)
C1_HoldersWithinCapacity ==
    \A pl \in Pools : Len(users[pl]) <= capacity[pl]

(* C1 witness: a pool is full while a request waits in its queue. *)
C1_Witness ==
    \E pl \in Pools : Len(users[pl]) = capacity[pl] /\ putq[pl] # <<>>

(* C2: in every reachable state, the level of the assistance budget and *)
(* of every material stock is at least 0 and at most its capacity.      *)
C2_LevelWithinBounds ==
    \A c \in Containers : 0 <= level[c] /\ AtMost(level[c], capacity[c])

(* C2 witness: a settlement has drained the budget to 0 and a Repair has *)
(* withdrawn a material down to level 0.                                 *)
C2_Witness ==
    /\ level["budget"] = 0
    /\ \E e \in Entities : entity[e].assistance_payout > 0
    /\ \E m \in Materials : level[m] = 0 /\ level[m] < capacity[m]

(* C3: a process interrupted while it waited for a slot that was not yet *)
(* granted never has its abandoned request granted, its holder count in  *)
(* the pool stays what it was before that request, and exactly one       *)
(* give-up record carrying the cause of the interrupt is produced.       *)
C3_QueuedInterruptLeavesNoSlot ==
    \A p \in Procs :
        (procs[p].pc = "done" /\ procs[p].intr = "queued") =>
            /\ ~InSeq(users[PoolOf(procs[p].kind)], <<p, procs[p].k>>)
            /\ SlotsOf(p) = procs[p].held
            /\ (entity[procs[p].ent].write_story =>
                    GiveUps(procs[p].ent, procs[p].cause)
                        = GaveUp(procs[p].ent, procs[p].cause))

(* C4: a financial process interrupted during its processing timeout, *)
(* while it holds a granted staff slot, holds no slot once it has     *)
(* terminated.                                                        *)
C4_TimeoutInterruptReleasesSlot ==
    \A p \in Procs :
        (/\ procs[p].kind \in FinancialKinds
         /\ procs[p].pc = "done"
         /\ procs[p].intr = "tmo") => SlotsOf(p) = 0

(* C5: a Repair process interrupted after k >= 1 skilled-labor slots were *)
(* granted to it holds no skilled-labor slot once it has terminated.      *)
C5_RepairInterruptReleasesCrew ==
    \A p \in Procs :
        (/\ procs[p].kind = "Repair"
         /\ procs[p].pc = "done"
         /\ procs[p].intr # ""
         /\ procs[p].held >= 1) => SlotsOf(p) = 0

(* C6: on a pool of capacity 1, slots are granted in exactly the order in *)
(* which the requests were made.                                          *)
C6_GrantedInRequestOrder ==
    \A pl \in Pools :
        capacity[pl] = 1 => IsPrefix(granted[pl], requested[pl])

(* C6 witness: on a permit pool of capacity 1, two requesters have been *)
(* granted a slot in turn while a third one still waits.                *)
C6_Witness ==
    /\ capacity["permit_staff"] = 1
    /\ Len(granted["permit_staff"]) >= 2
    /\ putq["permit_staff"] # <<>>

(* C7: no Repair process waits for a further skilled-labor slot while it *)
(* holds between 1 and 3 slots and another Repair process waits for a    *)
(* slot of the pool.                                                     *)
C7_CrewAllOrNothing ==
    \A p \in Procs :
        (/\ procs[p].kind = "Repair"
         /\ Waiting(p)
         /\ SlotsOf(p) \in 1..(CrewSize - 1)) =>
            ~\E q \in Procs \ {p} : procs[q].kind = "Repair" /\ Waiting(q)

(* C8: a Repair process is never suspended on a withdrawal that waits for *)
(* a container's level to rise.                                           *)
C8_RepairNeverWaitsForLevel ==
    \A p \in Procs :
        (procs[p].kind = "Repair" /\ procs[p].pc = "get") =>
            \A c \in Containers :
                \A i \in 1..Len(getq[c]) : getq[c][i].p # p

(* C9: a Repair process that starts while a required material's level is *)
(* below the stage's needed quantity ends in the same step, at the same   *)
(* timestamp, with no skilled-labor request made, no container changed,   *)
(* and money_to_rebuild and the stage flags unchanged.                    *)
C9_ShortageAbortsWithoutEffect ==
    [][\A p \in Procs :
          (/\ procs[p].kind = "Repair"
           /\ procs[p].pc = "start"
           /\ procs'[p].pc # "start"
           /\ \E m \in Materials : Needed(procs[p].stage, m) > level[m]) =>
              /\ procs'[p].pc = "done"
              /\ now' = now
              /\ requested' = requested
              /\ users' = users
              /\ putq' = putq
              /\ level' = level
              /\ getq' = getq
              /\ structure' = structure
              /\ \A e \in Entities :
                    entity'[e].money_to_rebuild = entity[e].money_to_rebuild]_vars

(* C9 witness: a Repair process has ended on a material shortage. *)
C9_Witness ==
    \E p \in Procs :
        /\ procs[p].kind = "Repair"
        /\ procs[p].pc = "done"
        /\ procs[p].out = "short"
        /\ \E m \in Materials : Needed(procs[p].stage, m) > level[m]
        /\ entity[procs[p].ent].money_to_rebuild
               >= StageCost(procs[p].stage, structure[procs[p].ent])

(* C10: a stage-complete flag that is true stays true in every later *)
(* state.                                                            *)
C10_StageFlagsMonotonic ==
    [][\A e \in Entities :
          /\ structure[e].new_plinth => structure'[e].new_plinth
          /\ structure[e].new_walls => structure'[e].new_walls
          /\ structure[e].new_roof => structure'[e].new_roof]_vars

(* C10 witness: after a stage was completed, a later Repair attempt on *)
(* the same structure ended without completing (aborted or given up).  *)
C10_Witness ==
    \E p \in Procs :
        /\ procs[p].kind = "Repair"
        /\ procs[p].pc = "done"
        /\ procs[p].out \in {"short", "no_money", "gave_up"}
        /\ LET st == structure[procs[p].ent] IN
           \/ st.new_plinth /\ procs[p].began >= st.finished_plinth
           \/ st.new_walls /\ procs[p].began >= st.finished_walls
           \/ st.new_roof /\ procs[p].began >= st.finished_roof

(* The complete flag of a stage. *)
StageFlag(st, stage) ==
    CASE stage = "Up to Plinth Level" -> st.new_plinth
      [] stage = "Superstructure" -> st.new_walls
      [] OTHER -> st.new_roof

StageState(st) == <<st.new_plinth, st.new_walls, st.new_roof>>

C12_MoneyChangesOnlyBySettlementOrStage ==
    [][\A e \in Entities :
          LET d == entity'[e].money_to_rebuild - entity[e].money_to_rebuild IN
          d # 0 =>
             \/ d > 0 /\ d = entity'[e].assistance_payout
             \/ d > 0 /\ d = entity'[e].claim_payout
             \/ d > 0 /\ d = entity'[e].loan_amount
             \/ \E stage \in Stages :
                   /\ d = 0 - StageCost(stage, structure[e])
                   /\ ~StageFlag(structure[e], stage)
                   /\ StageFlag(structure'[e], stage)]_vars

(* All three stages of the structure of entity e are complete, in order, *)
(* and the entity's money is lower than its starting money (its savings) *)
(* by the three stage values.                                            *)
RoofDoneAndPaid(e) ==
    /\ structure[e].new_plinth
    /\ structure[e].new_walls
    /\ structure[e].new_roof
    /\ structure[e].finished_plinth <= structure[e].finished_walls
    /\ structure[e].finished_walls <= structure[e].finished_roof
    /\ entity[e].money_to_rebuild =
          entity[e].savings - (structure[e].plinth_value
                               + structure[e].wall_value
                               + structure[e].roof_value)

(* C13: an entity whose money covers the three stage costs, with enough  *)
(* materials and at least 4 skilled-labor slots, that runs Repair for    *)
(* Plinth, Superstructure and Roofing in turn eventually has all three   *)
(* stages complete, finished in that order, and has paid exactly the sum *)
(* of the three stage values.                                            *)
C13_PipelineReachesRoofDone ==
    <>RoofDoneAndPaid(1)

(* C13 witness: the three Repair processes of the entity have completed *)
(* and the structure is at RoofDone.                                    *)
C13_Witness ==
    /\ mode = "pipeline"
    /\ capacity["skilled"] >= CrewSize
    /\ nspawned = Cardinality(Stages)
    /\ \A p \in 1..Cardinality(Stages) : procs[p].out = "completed"
    /\ structure[1].finished_roof > structure[1].finished_plinth
    /\ RoofDoneAndPaid(1)

(* In this step the process p of the given program resumes from its *)
(* processing timeout and settles (it is not interrupted).          *)
Settles(p, kind) ==
    /\ procs[p].kind = kind
    /\ procs[p].pc = "tmo"
    /\ procs'[p].pc # "tmo"
    /\ procs'[p].out # "gave_up"

(* C14: when IndividualAssistance settles for an entity whose structure  *)
(* has no plinth and the budget level is at least 50,000, the step sets  *)
(* assistance_payout to 50,000, adds 50,000 to money_to_rebuild and      *)
(* lowers the budget level by 50,000.                                    *)
C14_FullFirstTierPayout ==
    [][\A p \in Procs :
          LET e == procs[p].ent IN
          (/\ Settles(p, "IndividualAssistance")
           /\ ~structure[e].new_plinth
           /\ level["budget"] >= 50000) =>
              /\ entity'[e].assistance_payout = 50000
              /\ entity'[e].money_to_rebuild = entity[e].money_to_rebuild + 50000
              /\ level'["budget"] = level["budget"] - 50000]_vars

(* C14 witness: an assistance process has paid the full first tier to an *)
(* entity that lacked money, out of a budget that covered it.            *)
C14_Witness ==
    \E p \in Procs :
        /\ procs[p].kind = "IndividualAssistance"
        /\ procs[p].out = "completed"
        /\ procs[p].loc = 1
        /\ entity[procs[p].ent].savings < structure[procs[p].ent].damage_value
        /\ entity[procs[p].ent].assistance_payout = 50000
        /\ structure[procs[p].ent].first_inst

(* C15: when IndividualAssistance settles a request larger than the      *)
(* budget level L, then with L > 0 it pays exactly L (assistance_payout  *)
(* = L, money_to_rebuild raised by L) and leaves the budget at 0, and    *)
(* with L = 0 it pays 0 and leaves money_to_rebuild and the budget as    *)
(* they were.                                                            *)
C15_PartialOrZeroPayout ==
    [][\A p \in Procs :
          LET e == procs[p].ent
              L == level["budget"]
          IN
          (/\ Settles(p, "IndividualAssistance")
           /\ entity'[e].assistance_request > L) =>
              /\ entity'[e].assistance_payout = L
              /\ entity'[e].money_to_rebuild = entity[e].money_to_rebuild + L
              /\ level'["budget"] = 0]_vars

(* C15 witness: both cases have happened to one entity: a settlement     *)
(* paid out the 30,000 that were left of the budget, and a later one     *)
(* found the budget empty and paid nothing.                              *)
C15_Witness ==
    /\ level["budget"] = 0
    /\ \E p, q \in Procs :
          /\ procs[p].kind = "IndividualAssistance"
          /\ procs[p].out = "completed"
          /\ procs[p].loc = 2
          /\ procs[q].kind = "IndividualAssistance"
          /\ procs[q].out = "completed"
          /\ procs[q].loc = 0
          /\ procs[q].ent = procs[p].ent
          /\ entity[procs[q].ent].assistance_request = 50000
          /\ entity[procs[q].ent].assistance_payout = 0
          /\ entity[procs[q].ent].money_to_rebuild
                = entity[procs[q].ent].savings + 30000

(* In this step the process p of the given program runs its first *)
(* segment, from its creation to its first yield or its return.   *)
Starts(p, kind) ==
    /\ procs[p].kind = kind
    /\ procs[p].pc = "start"
    /\ procs'[p].pc # "start"

(* In this step process p ends at the time it started and leaves the *)
(* pool alone: no request, no holder, no waiter added.               *)
EndsAtOnceWithoutRequest(p, pl) ==
    /\ procs'[p].pc = "done"
    /\ procs'[p].ended = procs[p].began
    /\ now' = procs[p].began
    /\ users'[pl] = users[pl]
    /\ putq'[pl] = putq[pl]
    /\ requested'[pl] = requested[pl]

(* The deductible of entity e in hundreds: value * coverage ratio * *)
(* deductible rate, both in percent.                                *)
DeductibleHundreds(e) ==
    ((structure[e].value \div 100) * entity[e].insurance * DeductiblePct) \div 10000

(* C16: OwnersInsurance for an entity whose coverage ratio is <= 0 ends *)
(* at the time it started, with claim_payout = 0 and money_to_rebuild   *)
(* unchanged, without any request on the adjuster pool.                 *)
C16_UninsuredNoClaim ==
    [][\A p \in Procs :
          LET e == procs[p].ent IN
          (Starts(p, "OwnersInsurance") /\ entity[e].insurance <= 0) =>
              /\ EndsAtOnceWithoutRequest(p, "oi_staff")
              /\ entity'[e].claim_payout = 0
              /\ entity'[e].money_to_rebuild = entity[e].money_to_rebuild]_vars

(* C16 witness: an insurance process of an uninsured entity has ended *)
(* while the adjuster pool was never asked.                           *)
C16_Witness ==
    \E p \in Procs :
        /\ procs[p].kind = "OwnersInsurance"
        /\ procs[p].pc = "done"
        /\ entity[procs[p].ent].insurance <= 0
        /\ entity[procs[p].ent].claim_payout = 0
        /\ requested["oi_staff"] = <<>>

FirstIncompleteValue(e) ==
    CASE ~structure[e].new_plinth -> structure[e].plinth_value
      [] structure[e].new_plinth /\ ~structure[e].new_walls ->
            structure[e].wall_value
      [] OTHER -> structure[e].roof_value

LoanNotPositive ==
    \E p \in Procs :
        /\ procs[p].kind = "HomeLoan"
        /\ procs[p].out = "completed"
        /\ entity[procs[p].ent].loan_amount <= 0
        /\ entity[procs[p].ent].debt = 0

(* A loan settled after the plinth was built: savings are not subtracted. *)
LoanAfterPlinth ==
    \E p \in Procs :
        /\ procs[p].kind = "HomeLoan"
        /\ procs[p].out = "completed"
        /\ structure[procs[p].ent].new_plinth
        /\ entity[procs[p].ent].savings > 0
        /\ entity[procs[p].ent].loan_amount = 150000

(* C20: IndividualAssistance started with money_to_rebuild >=            *)
(* damage_value, and HomeLoan started with money_to_rebuild >= the value *)
(* of the first incomplete stage, end at the time they started, make no  *)
(* staff request and change no entity, structure, budget or pool state.  *)
C20_NoOpWhenFunded ==
    [][\A p \in Procs :
          LET e == procs[p].ent IN
          (\/ /\ Starts(p, "IndividualAssistance")
              /\ entity[e].money_to_rebuild >= structure[e].damage_value
           \/ /\ Starts(p, "HomeLoan")
              /\ entity[e].money_to_rebuild >= FirstIncompleteValue(e)) =>
              /\ procs'[p].pc = "done"
              /\ procs'[p].ended = procs[p].began
              /\ now' = procs[p].began
              /\ entity' = entity
              /\ structure' = structure
              /\ level' = level
              /\ getq' = getq
              /\ users' = users
              /\ putq' = putq
              /\ requested' = requested]_vars

(* C20 witness: for an entity whose money covers the damage, both an *)
(* assistance and a loan process have ended as no-ops, and no staff  *)
(* pool was ever asked.                                              *)
C20_Witness ==
    \E p, q \in Procs :
        /\ procs[p].kind = "IndividualAssistance"
        /\ procs[p].pc = "done"
        /\ procs[q].kind = "HomeLoan"
        /\ procs[q].pc = "done"
        /\ procs[q].ent = procs[p].ent
        /\ entity[procs[p].ent].money_to_rebuild
              >= structure[procs[p].ent].damage_value
        /\ entity[procs[p].ent].assistance_put = NoTime
        /\ entity[procs[p].ent].loan_put = NoTime
        /\ requested["ia_staff"] = <<>>
        /\ requested["hl_staff"] = <<>>

-----------------------------------------------------------------------------
(* The assistance an entity has received so far, as its story records it: *)
(* the sum of the amounts of the receipts written by IndividualAssistance. *)
RECURSIVE SumReceipts(_, _)
SumReceipts(story, tags) ==
    IF story = <<>> THEN 0
    ELSE (IF Head(story)[1] \in tags THEN Head(story)[2] ELSE 0)
            + SumReceipts(Tail(story), tags)

AssistancePaid(e) == SumReceipts(entity[e].story, {"ia_received", "ia_partial"})

(* C21: the total assistance paid to an entity by the IndividualAssistance *)
(* processes run for it never exceeds the program's max_outlay.            *)
C21_AssistanceWithinMaxOutlay ==
    \A e \in Entities : AssistancePaid(e) <= MaxOutlay

(* C22: the loan money granted to an entity by the HomeLoan processes run *)
(* for it, which is its debt, never exceeds the program's max_loan.       *)
C22_DebtWithinMaxLoan ==
    \A e \in Entities : entity[e].debt <= MaxLoan

(* A requester that was not interrupted waits in the put queue of pool pl. *)
WaitingFor(pl) ==
    \E p \in Procs : Waiting(p) /\ PoolOf(procs[p].kind) = pl

(* The Release event of a release made at the current time is pending. *)
ReleasePending(pl) ==
    \E i \in 1..Len(queue) :
        queue[i].type = "rel" /\ queue[i].res = pl /\ queue[i].t = now

(* C23: whenever a pool has a free slot while a requester that was not   *)
(* interrupted is queued, a release was made at the current time and its *)
(* Release event is still to be processed (time has not moved past the   *)
(* release); when that event is processed the slot goes to the head of   *)
(* the put queue, the longest-waiting request, at the same time.         *)
C23_ReleaseGrantsHeadAtSameTime ==
    /\ [](\A pl \in Pools :
            (Len(users[pl]) < capacity[pl] /\ WaitingFor(pl))
                => ReleasePending(pl))
    /\ [][\A pl \in Pools :
            (/\ queue # <<>>
             /\ Next1.type = "rel"
             /\ Next1.res = pl
             /\ Len(users[pl]) < capacity[pl]
             /\ putq[pl] # <<>>
             /\ now' = Next1.t) =>
                /\ now' = now
                /\ granted'[pl] = Append(granted[pl], Head(putq[pl]))
                /\ users'[pl] = Append(users[pl], Head(putq[pl]))
                /\ putq'[pl] = Tail(putq[pl])]_vars

(* C23 witness: on a pool of capacity 1 a requester that had to wait has  *)
(* just been granted the slot another process released at this time: its  *)
(* grant is pending at the current time, later than its request.          *)
C23_Witness ==
    \E p \in Procs :
        /\ procs[p].pc = "req"
        /\ capacity[PoolOf(procs[p].kind)] = 1
        /\ users[PoolOf(procs[p].kind)] = <<<<p, procs[p].k>>>>
        /\ procs[p].began < now
        /\ \E q \in Procs :
              /\ q # p
              /\ procs[q].kind = procs[p].kind
              /\ procs[q].out = "completed"
              /\ procs[q].ended = now
        /\ \E i \in 1..Len(queue) :
              /\ queue[i].type = "req"
              /\ queue[i].p = p
              /\ queue[i].t = now

(* C25: every program a process runs against was constructed with a      *)
(* positive staff capacity and a positive budget: every staff pool has a  *)
(* capacity above 0 and, while an IndividualAssistance request is being   *)
(* processed and no process has settled yet, the budget container still   *)
(* holds the amount it was constructed with, which is above 0.            *)
C25_OnlyPositiveStaffAndBudget ==
    /\ \A pl \in Pools : capacity[pl] > 0
    /\ (/\ \A q \in Procs : procs[q].pc \notin {"get", "done"}
        /\ \E p \in Procs : /\ procs[p].kind = "IndividualAssistance"
                             /\ procs[p].pc = "tmo")
          => level["budget"] > 0

(* C26: a financial program process that was started with a callbacks   *)
(* generator and has ended, by whatever exit, has started its callbacks. *)
C26_CallbacksOnEveryExit ==
    \A p \in Procs :
        (/\ procs[p].kind \in FinancialKinds
         /\ procs[p].pc = "done"
         /\ procs[p].cb # "none") => procs[p].cb = "started"

(* The event being processed is an interrupt delivered to process p. *)
InterruptDelivered(p) ==
    queue # <<>> /\ Next1.type = "intr" /\ Next1.p = p

(* Give-up records in the story of entity e. *)
GiveUpRecords(e) ==
    Cardinality({i \in 1..Len(entity[e].story) :
                    entity[e].story[i][1] \in GiveUpTags})

DoneAtSubmission(e, flag, finished) ==
    flag /\ finished <= entity[e].assistance_put

(* C28: the amount an IndividualAssistance process requests is the tier   *)
(* of the stage flags as they were when the request was submitted: 50,000 *)
(* if the plinth was not built then, 150,000 if the plinth was built but  *)
(* the walls were not, 100,000 otherwise, whatever stage was completed    *)
(* while the process was queued or waiting.                               *)
C28_RequestFixedAtSubmission ==
    [][\A p \in Procs :
          LET e == procs[p].ent
              st == structure[e]
          IN
          Settles(p, "IndividualAssistance") =>
              entity'[e].assistance_request =
                  IF ~DoneAtSubmission(e, st.new_plinth, st.finished_plinth)
                  THEN 50000
                  ELSE IF ~DoneAtSubmission(e, st.new_walls, st.finished_walls)
                  THEN 150000
                  ELSE 100000]_vars

(* The installment flags and timestamps of a structure. *)
Installments(st) ==
    <<st.first_inst, st.first_inst_time, st.second_inst, st.second_inst_time,
      st.third_inst, st.third_inst_time>>

(* The installments after the one of the structure's tier was paid at t. *)
InstallmentPaid(st, t) ==
    IF ~st.new_plinth
    THEN <<TRUE, t, st.second_inst, st.second_inst_time,
           st.third_inst, st.third_inst_time>>
    ELSE IF ~st.new_walls
    THEN <<st.first_inst, st.first_inst_time, TRUE, t,
           st.third_inst, st.third_inst_time>>
    ELSE <<st.first_inst, st.first_inst_time, st.second_inst,
           st.second_inst_time, TRUE, t>>

(* C29: a settlement of IndividualAssistance that pays the full amount    *)
(* requested sets the installment flag of the structure's tier (first     *)
(* before the plinth, second before the walls, third otherwise) and its   *)
(* timestamp to the current time and leaves the other two as they were; a *)
(* partial or zero payout leaves all flags and timestamps unchanged; no   *)
(* other step changes them, and a flag that is true stays true.           *)
C29_InstallmentOnFullPayoutOnly ==
    [][\A e \in Entities :
          LET st == structure[e]
              full == /\ entity'[e].assistance_payout = entity'[e].assistance_request
                      /\ entity'[e].assistance_request # 0
          IN
          /\ \A p \in Procs :
                (Settles(p, "IndividualAssistance") /\ procs[p].ent = e) =>
                    Installments(structure'[e]) =
                        IF full THEN InstallmentPaid(st, now')
                        ELSE Installments(st)
          /\ Installments(structure'[e]) # Installments(st) =>
                \E p \in Procs : /\ Settles(p, "IndividualAssistance")
                                 /\ procs[p].ent = e
                                 /\ full
          /\ st.first_inst => structure'[e].first_inst
          /\ st.second_inst => structure'[e].second_inst
          /\ st.third_inst => structure'[e].third_inst]_vars

(* C29 witness: with plinth and walls built, a full payout of the third *)
(* tier has set third_inst at the time the assistance was received and  *)
(* left the first two installments unset.                               *)
C29_Witness ==
    \E p \in Procs :
        /\ procs[p].kind = "IndividualAssistance"
        /\ procs[p].out = "completed"
        /\ procs[p].ent = 1
        /\ entity[1].assistance_payout = 100000
        /\ structure[1].third_inst
        /\ structure[1].third_inst_time = entity[1].assistance_get
        /\ structure[1].third_inst_time > 0
        /\ ~structure[1].first_inst
        /\ ~structure[1].second_inst

(* The tag of the story line the step appends for entity e, "" if none. *)
StoryLineAdded(e) ==
    IF Len(entity'[e].story) = Len(entity[e].story) + 1
    THEN entity'[e].story[Len(entity'[e].story)][1]
    ELSE ""

(* C30: a Repair process that starts while money_to_rebuild is below the  *)
(* cost of its stage and every required material is in stock ends in the *)
(* same step, at the same timestamp, as unable to get enough money, with  *)
(* no skilled-labor request made, no container changed, and               *)
(* money_to_rebuild and the structure unchanged; when a material is short *)
(* as well, the process ends on the shortage, not on the money: the       *)
(* material checks come first.                                            *)
C30_NoMoneyAbortsAfterMaterialChecks ==
    [][\A p \in Procs :
          LET e == procs[p].ent
              stage == procs[p].stage
              short == \E m \in Materials : Needed(stage, m) > level[m]
          IN
          (/\ Starts(p, "Repair")
           /\ entity[e].money_to_rebuild < StageCost(stage, structure[e])) =>
              /\ procs'[p].pc = "done"
              /\ procs'[p].ended = procs[p].began
              /\ now' = now
              /\ requested' = requested
              /\ users' = users
              /\ putq' = putq
              /\ level' = level
              /\ getq' = getq
              /\ structure' = structure
              /\ \A f \in Entities :
                    entity'[f].money_to_rebuild = entity[f].money_to_rebuild
              /\ procs'[p].out = IF short THEN "short" ELSE "no_money"
              /\ entity[e].write_story =>
                    (StoryLineAdded(e) = "repair_no_money") = ~short]_vars

(* C30 witness: a Repair of the superstructure, with every material in   *)
(* stock, has ended for lack of money, and the owner's money is the      *)
(* savings it began with; the pool was never asked for a slot.           *)
C30_Witness ==
    \E p \in Procs :
        /\ procs[p].kind = "Repair"
        /\ procs[p].stage = "Superstructure"
        /\ procs[p].out = "no_money"
        /\ procs[p].ent = 1
        /\ \A m \in Materials : Needed(procs[p].stage, m) <= level[m]
        /\ entity[1].money_to_rebuild = entity[1].savings
        /\ entity[1].money_to_rebuild < structure[1].wall_value
        /\ requested["skilled"] = <<>>

-----------------------------------------------------------------------------
(* Process n is a Repair that ran to completion. *)
RepairCompleted(n) ==
    procs[n].kind = "Repair" /\ procs[n].out = "completed"

(* What the completed Repair processes 1..n needed of container c. *)
RECURSIVE NeededByCompleted(_, _)
NeededByCompleted(c, n) ==
    IF n = 0 THEN 0
    ELSE (IF RepairCompleted(n) THEN Needed(procs[n].stage, c) ELSE 0)
            + NeededByCompleted(c, n - 1)

(* The cost of the stages of entity e that the completed Repair processes *)
(* 1..n built.                                                            *)
RECURSIVE CostOfCompleted(_, _)
CostOfCompleted(e, n) ==
    IF n = 0 THEN 0
    ELSE (IF RepairCompleted(n) /\ procs[n].ent = e
          THEN StageCost(procs[n].stage, structure[e]) ELSE 0)
            + CostOfCompleted(e, n - 1)

LastProc == Max(MaxProcs, MaxPermits)

(* C31: a Repair that passed its preconditions and was not interrupted    *)
(* has, when it completes, taken exactly the stage's quantity out of each *)
(* container (nothing where the quantity is zero), released the 4 slots   *)
(* it held, debited money_to_rebuild by the stage's cost once, and set    *)
(* the stage's flag and its completion time, the current time, leaving    *)
(* the other two flags as they were. With the household's repairs run one *)
(* after the other: whenever no repair is under way every container level *)
(* is the initial stock less the quantities of the completed stages, the  *)
(* owner's money is the savings less their costs, and the pool is empty.  *)
C31_RepairCompletionEffects ==
    /\ [](( \A q \in Procs : procs[q].pc \in {"unborn", "done"}) =>
            /\ \A c \in Materials \cup {"unskilled"} :
                  level[c] = capacity[c] - NeededByCompleted(c, LastProc)
            /\ entity[1].money_to_rebuild
                  = entity[1].savings - CostOfCompleted(1, LastProc)
            /\ users["skilled"] = <<>>)
    /\ [][\A p \in Procs :
            LET e == procs[p].ent
                stage == procs[p].stage
                st == structure[e]
            IN
            Settles(p, "Repair") =>
                /\ Held(users["skilled"], p) = 4
                /\ Held(users'["skilled"], p) = 0
                /\ level' = level
                /\ entity'[e].money_to_rebuild
                      = entity[e].money_to_rebuild - StageCost(stage, st)
                /\ StageFlag(structure'[e], stage)
                /\ \A other \in Stages \ {stage} :
                      StageFlag(structure'[e], other) = StageFlag(st, other)
                /\ (stage = "Up to Plinth Level")
                      => structure'[e].finished_plinth = now'
                /\ (stage = "Superstructure")
                      => structure'[e].finished_walls = now'
                /\ (stage = "Roofing")
                      => structure'[e].finished_roof = now']_vars

(* C31 witness: the three stages were repaired in turn; the stocks are  *)
(* down by what the three stages need (2 stone, 2 timber, 3 unskilled), *)
(* the brick by 2, and the money by the value of the whole house.       *)
C31_Witness ==
    /\ \A q \in Procs : procs[q].pc = "done" /\ RepairCompleted(q)
    /\ level["stone"] = capacity["stone"] - 2
    /\ level["timber"] = capacity["timber"] - 2
    /\ level["brick"] = capacity["brick"] - 2
    /\ level["unskilled"] = capacity["unskilled"] - 3
    /\ entity[1].money_to_rebuild
          = entity[1].savings - structure[1].damage_value
    /\ structure[1].new_plinth /\ structure[1].new_walls /\ structure[1].new_roof
    /\ users["skilled"] = <<>>

(* The elapsed duration the structure records for a stage. *)
StageTime(st, stage) ==
    CASE stage = "Up to Plinth Level" -> st.plinth_time
      [] stage = "Superstructure" -> st.walls_time
      [] OTHER -> st.roof_time

(* C32: the build wait a Repair starts lasts exactly the stage's skilled  *)
(* effort divided by the crew of 4, and the elapsed duration recorded for *)
(* the stage at completion is the completion time less the time that      *)
(* Repair was requested, hence never less than the build wait.            *)
C32_BuildWaitAndElapsedTime ==
    [][\A p \in Procs :
          LET e == procs[p].ent
              stage == procs[p].stage
              wait == SkilledNeeded(stage) \div 4
          IN
          /\ (procs[p].kind = "Repair" /\ procs[p].pc # "tmo"
                /\ procs'[p].pc = "tmo") =>
                \E i \in 1..Len(queue') :
                    /\ queue'[i].type = "tmo"
                    /\ queue'[i].p = p
                    /\ queue'[i].t = now' + wait
          /\ Settles(p, "Repair") =>
                /\ StageTime(structure'[e], stage) = now' - procs[p].began
                /\ StageTime(structure'[e], stage) >= wait]_vars

(* The story line that names material m as the one in short supply. *)
ShortageOf(m) ==
    CASE m = "stone" -> "insufficient_stone"
      [] m = "brick" -> "insufficient_brick"
      [] m = "timber" -> "insufficient_timber"
      [] m = "rebar" -> "insufficient_rebar"
      [] m = "cement" -> "insufficient_cement"
      [] m = "cgi" -> "insufficient_cgi"
      [] m = "sand" -> "insufficient_sand"
      [] OTHER -> "insufficient_aggregate"

(* C33: when a Repair of a recorded owner aborts for a material shortage, *)
(* the shortage written to the story is that of the first material, in   *)
(* the order stone, brick, timber, rebar, cement, CGI, sand, aggregate,   *)
(* whose required quantity exceeds its container's level.                 *)
C33_FirstShortMaterialRecorded ==
    [][\A p \in Procs :
          LET e == procs[p].ent
              order == <<"stone", "brick", "timber", "rebar", "cement",
                         "cgi", "sand", "aggregate">>
              short == {i \in 1..8 :
                           Needed(procs[p].stage, order[i]) > level[order[i]]}
          IN
          (Starts(p, "Repair") /\ short # {} /\ entity[e].write_story) =>
              \E i \in short :
                  /\ \A j \in short : i <= j
                  /\ StoryLineAdded(e) = ShortageOf(order[i])]_vars

(* The flag a Permit or an EngineeringAssessment sets on the structure. *)
Approved(st, kind) ==
    IF kind = "Permit" THEN st.permit ELSE st.assessment

C35_InspectionEndsNormally ==
    [][\A p \in Procs :
          LET e == procs[p].ent IN
          procs[p].kind = "Inspection" =>
              /\ (procs[p].pc = "tmo" /\ procs'[p].pc # "tmo") =>
                    /\ procs'[p].out = "completed"
                    /\ structure'[e].inspected
                    /\ Held(users'["insp_staff"], p) = 0
              /\ procs'[p] # procs[p] =>
                    /\ entity'[e].money_to_rebuild = entity[e].money_to_rebuild
                    /\ ~procs[p].bound =>
                          /\ entity'[e].inspection_put = entity[e].inspection_put
                          /\ entity'[e].inspection_get = entity[e].inspection_get]_vars

(* A Repair process that has begun and not ended. *)
Remaining(p) ==
    procs[p].kind = "Repair" /\ procs[p].pc \notin {"unborn", "done"}

(* C36: with a skilled-labor pool of at least 4 slots and materials in   *)
(* stock for all, every Repair that has passed its preconditions         *)
(* eventually completes, and in no state, with no event left to process, *)
(* is every remaining Repair waiting in the pool's queue.                *)
C36_CrewDeadlockFree ==
    /\ \A p \in Procs :
          [](Remaining(p) /\ procs[p].pc # "start"
                => <>(procs[p].out = "completed"))
    /\ [](~(/\ queue = <<>>
            /\ \E p \in Procs : Remaining(p)
            /\ \A p \in Procs : Remaining(p) => Waiting(p)))

(* Money of all entities that is not borrowed. *)
OwnMoney(en) ==
    en[1].money_to_rebuild - en[1].debt + en[2].money_to_rebuild - en[2].debt

(* C37: assistance money is conserved: in every step, under any           *)
(* interleaving and any interrupt, what leaves the budget container is    *)
(* what IndividualAssistance adds to the entities' money_to_rebuild (the  *)
(* only other addition, a loan, is matched by debt), so that the initial  *)
(* budget less the level always equals the payouts made so far.           *)
C37_AssistanceMoneyConserved ==
    [][/\ level["budget"] - level'["budget"] = OwnMoney(entity') - OwnMoney(entity)
       /\ \A e \in Entities :
             entity'[e].money_to_rebuild - entity'[e].debt
                >= entity[e].money_to_rebuild - entity[e].debt]_vars

(* C37 witness: of two assistance processes of one owner, one was paid   *)
(* the full 50,000 and the other was interrupted and gave up; the budget *)
(* of 300,000 is down by the 50,000 the owner received.                  *)
C37_Witness ==
    \E p, q \in Procs :
        /\ procs[p].kind = "IndividualAssistance"
        /\ procs[p].out = "completed"
        /\ procs[p].loc = 1
        /\ procs[q].kind = "IndividualAssistance"
        /\ procs[q].out = "gave_up"
        /\ level["budget"] = 300000 - 50000
        /\ entity[1].money_to_rebuild = entity[1].savings + 50000

(* C38: money_to_rebuild of an entity, whose savings are not negative, is *)
(* never negative, whatever processes run or overlap for that entity.     *)
C38_MoneyNeverNegative ==
    \A e \in Entities :
        entity[e].savings >= 0 => entity[e].money_to_rebuild >= 0

(* C39: debt starts at 0, is never negative and never decreases; it rises *)
(* only when a HomeLoan settles with a positive loan_amount, by that      *)
(* amount, which the same step adds to money_to_rebuild; a settlement     *)
(* with a loan_amount of 0 or less leaves debt and money_to_rebuild as    *)
(* they were; the debt of the recorded owner is the sum of the loans its  *)
(* story lists.                                                           *)
C39_DebtIsSumOfPositiveLoans ==
    /\ \A e \in Entities : entity[e].debt = 0
    /\ [](/\ \A e \in Entities : entity[e].debt >= 0
          /\ entity[1].debt = SumReceipts(entity[1].story, {"hl_received"}))
    /\ [][\A e \in Entities :
            /\ entity'[e].debt >= entity[e].debt
            /\ entity'[e].debt # entity[e].debt =>
                  \E p \in Procs :
                      /\ Settles(p, "HomeLoan")
                      /\ procs[p].ent = e
                      /\ entity'[e].loan_amount > 0
                      /\ entity'[e].debt = entity[e].debt + entity'[e].loan_amount
                      /\ entity'[e].money_to_rebuild
                            = entity[e].money_to_rebuild + entity'[e].loan_amount
            /\ \A p \in Procs :
                  (/\ Settles(p, "HomeLoan")
                   /\ procs[p].ent = e
                   /\ entity'[e].loan_amount <= 0) =>
                      /\ entity'[e].debt = entity[e].debt
                      /\ entity'[e].money_to_rebuild
                            = entity[e].money_to_rebuild]_vars

(* C39 witness: the owner took a loan of 100,000, then was paid an        *)
(* insurance claim, and a later HomeLoan computed a negative amount: the  *)
(* debt is still the 100,000 of the first loan.                           *)
C39_Witness ==
    \E p, q \in Procs :
        /\ p # q
        /\ procs[p].kind = "HomeLoan"
        /\ procs[q].kind = "HomeLoan"
        /\ procs[p].out = "completed"
        /\ procs[q].out = "completed"
        /\ entity[1].loan_amount < 0
        /\ entity[1].debt = 100000

(* A process that has left its generator by a return: completed, nothing *)
(* to do, or a precondition not met.                                     *)
Terminated(p) ==
    /\ procs[p].pc = "done"
    /\ procs[p].out \in {"completed"} \cup EarlyReturns

(* C40: in a run without interrupts, once every process the orchestrator *)
(* started has terminated, no pool of staff or of skilled labor has a    *)
(* holder or a waiting request.                                          *)
C40_NoLeakAtQuiescence ==
    (/\ nintr = 0
     /\ nspawned > 0
     /\ \A p \in 1..nspawned : Terminated(p)) =>
        \A pl \in Pools : users[pl] = <<>> /\ putq[pl] = <<>>

(* C40 witness: every process has terminated, one of them a repair that *)
(* held a crew and another a program that held one of its staff.        *)
C40_Witness ==
    /\ nintr = 0
    /\ nspawned > 1
    /\ \A p \in 1..nspawned : Terminated(p)
    /\ \E p \in Procs : procs[p].kind = "Repair" /\ procs[p].out = "completed"
    /\ \E p \in Procs :
          /\ procs[p].kind # "Repair"
          /\ procs[p].out = "completed"
          /\ granted[PoolOf(procs[p].kind)] # <<>>
    /\ Len(granted["skilled"]) = CrewSize

=============================================================================
